---- MODULE Spec2Model ----
(***************************************************************************)
(* A model of blackmichael/bluesky-feeds: the Postgres-backed Post Store   *)
(* and Cursor Store (internal/postgres Repository), the Jetstream          *)
(* Subscriber (internal/firehose) and the retention job.                   *)
(*                                                                         *)
(* Three specifications share the definitions below:                       *)
(*   Spec       the Repository's operations called one after the other     *)
(*              (CreatePost, DeletePost, GetFeedPosts, DeleteOldPosts);    *)
(*   SpecEvict  DeleteOldPosts statement by statement inside its           *)
(*              transaction, interleaved with queries and the              *)
(*              Subscriber's writes;                                       *)
(*   SpecSub    the Subscriber's Start/subscribe loop against an event     *)
(*              source and the Cursor Store.                               *)
(*                                                                         *)
(* Time is counted in ticks; UnitsPerMilli ticks make one millisecond, so  *)
(* a stored indexed_at (microsecond precision in Postgres) can lie inside  *)
(* a millisecond.  A cid is a number standing for its rank in the text     *)
(* order Postgres compares cids by.                                        *)
(***************************************************************************)
EXTENDS Integers, Sequences, FiniteSets, TLC

\* ------------------------------------------------------------------ bounds
MaxNow == 1            \* the clock runs over 0..MaxNow ticks
MaxIndexedAt == 2      \* indexed_at of the rows the page queries run over, 0..MaxIndexedAt
UnitsPerMilli == 2     \* ticks per millisecond (the sub-millisecond grain)
NumCids == 2           \* distinct cids, 1..NumCids in text order
MaxLimit == 3          \* page sizes 1..MaxLimit
MaxRowsBound == 2      \* maxRows arguments 0..MaxRowsBound
MaxAgeBound == 1       \* maxAge arguments 0..MaxAgeBound ticks

PostCollection == "app.bsky.feed.post"

\* fmt.Sprintf("at://%s/%s/%s", event.DID, commit.Collection, commit.RKey),
\* kept as its three parts
MakeURI(did, collection, rkey) == <<did, collection, rkey>>

\* the uris of the model, listed in ascending text order
UriOrder == <<MakeURI("did:a", PostCollection, "k1"),
              MakeURI("did:a", PostCollection, "k2"),
              MakeURI("did:b", PostCollection, "k1")>>
URIs == {UriOrder[i] : i \in 1..Len(UriOrder)}
UriRank(u) == CHOOSE i \in 1..Len(UriOrder) : UriOrder[i] = u
CIDs == 1..NumCids
Times == 0..MaxIndexedAt

\* domain.Post / a row of table posts
Post(uri, cid, indexedAt) == [uri |-> uri, cid |-> cid, indexed_at |-> indexedAt]
Rows == {Post(u, c, t) : u \in URIs, c \in CIDs, t \in Times}

VARIABLES
  posts,      \* table posts: the committed rows
  now,        \* the wall clock, in ticks
  lastOp,     \* the last Repository write call: its arguments, the rows before it, its result
  lastPage,   \* the last GetFeedPosts call and what it returned
  walk,       \* a consumer paging through the feed with the returned cursors
  txn,        \* DeleteOldPosts' open transaction (SpecEvict)
  seen,       \* what the last query read while that transaction was open (SpecEvict)
  src,        \* the event source: the messages Jetstream has emitted, in order (SpecSub)
  sub,        \* the Subscriber: where Start/subscribe stands, and subscribe's locals
  cursors,    \* table cursors: cursor_value of service "jetstream", 0 when there is no row
  ctxDone,    \* the shared context has been cancelled
  hist,       \* history of the run: the events applied, where the first session started
  feeds,      \* what NewFeedService returned: the compiled feeds, or its error
  match,      \* the last post handed to matchesAnyFeed and the answer
  proc,       \* the server process: where run stands and what it has started
  resp,       \* the last getFeedSkeleton request and the response written
  cleanup     \* the retention job: where StartCleanupJob stands, its ticker, its last result

\* the state of the service's front: rule sets, process start-up, HTTP handler
front == <<feeds, match, proc, resp, cleanup>>

vars == <<posts, now, lastOp, lastPage, walk, txn, seen, src, sub, cursors, ctxDone, hist,
          feeds, match, proc, resp, cleanup>>

\* ------------------------------------------------------- Post Store: writes

\* INSERT ... ON CONFLICT (uri) DO NOTHING, uri being the primary key
CreatePostUpsert(rows, post) == {r \in rows : r.uri # post.uri} \cup {post}
CreatePost(rows, post) ==
  IF \E r \in rows : r.uri = post.uri THEN rows ELSE rows \cup {post}

\* the error CreatePost's statement returns on a reachable database
CreatePostErr(rows, post) == "none"

\* a delete by author: WHERE the uri's did is that of $1
DeletePostByAuthor(rows, uri) == {r \in rows : r.uri[1] # uri[1]}
\* DELETE FROM posts WHERE uri = $1
DeletePost(rows, uri) == {r \in rows : r.uri # uri}

\* ------------------------------------------------------ Post Store: queries

\* ORDER BY indexed_at DESC, cid DESC: a is strictly ahead of b
OrderedBefore(a, b) ==
  \/ a.indexed_at > b.indexed_at
  \/ a.indexed_at = b.indexed_at /\ a.cid > b.cid

\* time.Time.UnixMilli and time.UnixMilli
UnixMilli(t) == t \div UnitsPerMilli
TimeUnixMilli(millis) == millis * UnitsPerMilli

\* A cursor string is kept as its "::"-separated segments; the empty string is
\* <<>>.  A segment is a decimal number or other text.
IntSeg(n) == [kind |-> "int", val |-> n]
TxtSeg(c) == [kind |-> "txt", val |-> c]
EmptyCursor == <<>>

\* fmt.Sprintf("%d::%s", last.IndexedAt.UnixMilli(), last.CID)
FormatCursor(last) == <<IntSeg(UnixMilli(last.indexed_at)), TxtSeg(last.cid)>>

\* parseCursor: SplitN(cursor, "::", 2), ParseInt on the first part
parseCursor(cursor) ==
  IF Len(cursor) < 2 THEN [err |-> "format", time |-> 0, cid |-> <<>>]
  ELSE IF cursor[1].kind # "int" THEN [err |-> "timestamp", time |-> 0, cid |-> <<>>]
  ELSE [err |-> "none", time |-> TimeUnixMilli(cursor[1].val), cid |-> Tail(cursor)]

\* text comparison r.cid < $2, $2 being the cursor's second part
CidBelow(cid, part) ==
  /\ Len(part) >= 1
  /\ part[1].kind = "txt"
  /\ \/ cid < part[1].val
     \/ cid = part[1].val /\ Len(part) > 1

\* WHERE (indexed_at, cid) < ($1, $2): the row comparison is lexicographic
RowBelowCursor(r, cursorTime, cursorCID) ==
  \/ r.indexed_at < cursorTime
  \/ r.indexed_at = cursorTime /\ CidBelow(r.cid, cursorCID)

\* ORDER BY indexed_at DESC, cid DESC LIMIT n over `rows`: every result the
\* database may return (rows equal in both keys come in either order)
OrderedLimitByTimeOnly(rows, n) ==
  LET k == IF Cardinality(rows) < n THEN Cardinality(rows) ELSE n
  IN {s \in UNION {[1..k -> rows]} :
        /\ \A i, j \in 1..k : i < j => s[i] # s[j] /\ s[i].indexed_at >= s[j].indexed_at
        /\ \A r \in rows : (\A i \in 1..k : s[i] # r) =>
                              \A i \in 1..k : r.indexed_at <= s[i].indexed_at}
OrderedLimit(rows, n) ==
  LET k == IF Cardinality(rows) < n THEN Cardinality(rows) ELSE n
  IN {s \in UNION {[1..k -> rows]} :
        /\ \A i, j \in 1..k : i < j => s[i] # s[j] /\ ~OrderedBefore(s[j], s[i])
        /\ \A r \in rows : (\A i \in 1..k : s[i] # r) =>
                              \A i \in 1..k : ~OrderedBefore(r, s[i])}

\* the nextCursor of GetFeedPosts
NextCursorNonEmptyPage(page, limit) ==
  IF Len(page) > 0 THEN FormatCursor(page[Len(page)]) ELSE EmptyCursor
NextCursor(page, limit) ==
  IF Len(page) = limit THEN FormatCursor(page[Len(page)]) ELSE EmptyCursor

\* Repository.GetFeedPosts: the results (posts, nextCursor, err) it may return
GetFeedPosts(rows, limit, cursor) ==
  IF cursor # EmptyCursor
    THEN LET c == parseCursor(cursor)
         IN IF c.err # "none"
              THEN {[posts |-> <<>>, nextCursor |-> EmptyCursor, err |-> "invalid cursor"]}
              ELSE {[posts |-> p, nextCursor |-> NextCursor(p, limit), err |-> "none"] :
                      p \in OrderedLimit({r \in rows : RowBelowCursor(r, c.time, c.cid)}, limit)}
    ELSE {[posts |-> p, nextCursor |-> NextCursor(p, limit), err |-> "none"] :
            p \in OrderedLimit(rows, limit)}

\* ---------------------------------------------------- Post Store: eviction

\* DELETE FROM posts WHERE indexed_at < now - maxAge
ExpiredRowsInclusive(rows, cutoff) == {r \in rows : r.indexed_at <= cutoff}
ExpiredRows(rows, cutoff) == {r \in rows : r.indexed_at < cutoff}

\* DELETE ... WHERE uri IN (SELECT uri ... ORDER BY indexed_at DESC, cid DESC
\* OFFSET maxRows): every set of rows the statement may delete
ExcessRowsOldestKept(rows, maxRows) ==
  {rows \ k : k \in {k \in SUBSET rows :
       /\ Cardinality(k) = (IF Cardinality(rows) < maxRows THEN Cardinality(rows) ELSE maxRows)
       /\ \A a \in k, b \in rows \ k : ~OrderedBefore(a, b)}}
ExcessRows(rows, maxRows) ==
  {rows \ k : k \in {k \in SUBSET rows :
       /\ Cardinality(k) = (IF Cardinality(rows) < maxRows THEN Cardinality(rows) ELSE maxRows)
       /\ \A a \in k, b \in rows \ k : ~OrderedBefore(b, a)}}

\* ------------------------------------------------- Repository calls (Spec)

NoOp == [op |-> "none"]
NoPage == [limit |-> 0]
IdleWalk == [state |-> "idle"]
NoTxn == [state |-> "closed"]
NoSeen == [state |-> "none"]
NoReq == [made |-> FALSE]
IdleSub == [pc |-> "idle", open |-> FALSE, next |-> 0, latestCursor |-> 0,
            saveDue |-> FALSE, req |-> NoReq]
NoHist == [applied |-> {}, firstNext |-> 0]
NoFeeds == [err |-> "unset"]
NoMatch == [state |-> "none"]
NoProc == [pc |-> "off"]
NoResp == [status |-> 0]
NoCleanup == [pc |-> "off"]

\* the stores CreatePost can build: at most one row per uri
Stores ==
  {{Post(u, f[u][1], f[u][2]) : u \in DOMAIN f} :
     f \in UNION {[U -> CIDs \X (0..MaxIndexedAt)] : U \in SUBSET URIs}}

Init ==
  /\ posts = {}
  /\ now = 0
  /\ lastOp = NoOp
  /\ lastPage = NoPage
  /\ walk = IdleWalk
  /\ txn = NoTxn
  /\ seen = NoSeen
  /\ src = <<>>
  /\ sub = IdleSub
  /\ cursors = 0
  /\ ctxDone = FALSE
  /\ hist = NoHist
  /\ feeds = NoFeeds
  /\ match = NoMatch
  /\ proc = NoProc
  /\ resp = NoResp
  /\ cleanup = NoCleanup

Tick ==
  /\ now < MaxNow
  /\ now' = now + 1
  /\ UNCHANGED <<front, posts, lastOp, lastPage, walk, txn, seen, src, sub, cursors, ctxDone, hist>>

\* FeedService.ProcessNewPost on a matching post: the row is stamped with
\* time.Now() and handed to Repository.CreatePost.  dbUp: the statement
\* reaches the database.
CreatePostCall ==
  \E u \in URIs, c \in CIDs, dbUp \in BOOLEAN :
    LET post == Post(u, c, now)
    IN /\ posts' = IF dbUp THEN CreatePost(posts, post) ELSE posts
       /\ lastOp' = [op |-> "create", before |-> posts, post |-> post, dbUp |-> dbUp,
                     err |-> IF dbUp THEN CreatePostErr(posts, post) ELSE "io"]
       /\ UNCHANGED <<front, now, lastPage, walk, txn, seen, src, sub, cursors, ctxDone, hist>>

\* FeedService.ProcessDeletePost -> Repository.DeletePost
DeletePostCall ==
  \E u \in URIs, dbUp \in BOOLEAN :
    /\ posts' = IF dbUp THEN DeletePost(posts, u) ELSE posts
    /\ lastOp' = [op |-> "delete", before |-> posts, uri |-> u, dbUp |-> dbUp,
                  err |-> IF dbUp THEN "none" ELSE "io"]
    /\ UNCHANGED <<front, now, lastPage, walk, txn, seen, src, sub, cursors, ctxDone, hist>>

\* Repository.DeleteOldPosts run alone: BeginTx, the TTL statement, the
\* row-cap statement, Commit; a failure at any of them rolls back and
\* returns (0, err).
EvictErrs == {"none", "begin transaction", "delete expired posts",
              "delete excess posts", "commit transaction"}

DeleteOldPostsCall ==
  \E maxAge \in 0..MaxAgeBound, maxRows \in 0..MaxRowsBound, err \in EvictErrs :
    LET expired == ExpiredRows(posts, now - maxAge)
        kept == posts \ expired
    IN \E excess \in ExcessRows(kept, maxRows) :
         /\ posts' = IF err = "none" THEN kept \ excess ELSE posts
         /\ lastOp' = IF err = "none"
                        THEN [op |-> "evict", before |-> posts, at |-> now,
                              maxAge |-> maxAge, maxRows |-> maxRows, err |-> err,
                              deleted |-> Cardinality(expired) + Cardinality(excess)]
                        ELSE [op |-> "evict", before |-> posts, err |-> err, deleted |-> 0]
         /\ UNCHANGED <<front, now, lastPage, walk, txn, seen, src, sub, cursors, ctxDone, hist>>

Next == Tick \/ CreatePostCall \/ DeletePostCall \/ DeleteOldPostsCall

Spec == Init /\ [][Next]_vars

\* ------------------------------------------------- page queries (SpecPage)

\* the cursor strings a caller may send: none, every "<millis>::<cid>", and
\* strings that are not of that form ("c", "c::c", "0", "0::c::c")
Cursors ==
  {EmptyCursor}
    \cup {<<IntSeg(m), TxtSeg(c)>> : m \in 0..UnixMilli(MaxIndexedAt), c \in CIDs}
    \cup {<<TxtSeg(1)>>, <<TxtSeg(1), TxtSeg(1)>>, <<IntSeg(0)>>,
          <<IntSeg(0), TxtSeg(1), TxtSeg(1)>>}

\* the store holds any content CreatePost can have built; nothing writes to it
\* while the queries run
InitPage ==
  /\ posts \in Stores
  /\ now = MaxIndexedAt
  /\ lastOp = NoOp
  /\ lastPage = NoPage
  /\ walk = IdleWalk
  /\ txn = NoTxn
  /\ seen = NoSeen
  /\ src = <<>>
  /\ sub = IdleSub
  /\ cursors = 0
  /\ ctxDone = FALSE
  /\ hist = NoHist
  /\ feeds = NoFeeds
  /\ match = NoMatch
  /\ proc = NoProc
  /\ resp = NoResp
  /\ cleanup = NoCleanup

\* one call of Repository.GetFeedPosts(limit, cursor) by any caller
PageCall ==
  \E limit \in 1..MaxLimit, cursor \in Cursors :
    \E r \in GetFeedPosts(posts, limit, cursor) :
      /\ lastPage' = [limit |-> limit, cursor |-> cursor, posts |-> r.posts,
                      nextCursor |-> r.nextCursor, err |-> r.err]
      /\ UNCHANGED <<front, posts, now, lastOp, walk, txn, seen, src, sub, cursors, ctxDone, hist>>

NextPage == PageCall

SpecPage == InitPage /\ [][NextPage]_vars

\* ---------------------------------------------- a consumer's walk (SpecWalk)

\* the consumer's bookkeeping after a call (limit, cursor) returned r: the
\* posts are appended to what it has, the nextCursor is kept for the next
\* call, an empty nextCursor ends the walk
WalkAfter(acc, limit, r) ==
  [state |-> IF r.err # "none" THEN "failed"
             ELSE IF r.nextCursor = EmptyCursor THEN "done" ELSE "going",
   limit |-> limit, cursor |-> r.nextCursor, acc |-> acc \o r.posts]

\* page(L, "")
WalkStart ==
  /\ walk.state # "going"
  /\ \E limit \in 1..MaxLimit :
       \E r \in GetFeedPosts(posts, limit, EmptyCursor) :
         walk' = WalkAfter(<<>>, limit, r)
  /\ UNCHANGED <<front, posts, now, lastOp, lastPage, txn, seen, src, sub, cursors, ctxDone, hist>>

\* page(L, c) with the nextCursor c of the previous call
WalkNext ==
  /\ walk.state = "going"
  /\ \E r \in GetFeedPosts(posts, walk.limit, walk.cursor) :
       walk' = WalkAfter(walk.acc, walk.limit, r)
  /\ UNCHANGED <<front, posts, now, lastOp, lastPage, txn, seen, src, sub, cursors, ctxDone, hist>>

NextWalk == WalkStart \/ WalkNext

SpecWalk == InitPage /\ [][NextWalk]_vars

\* ------------------------- DeleteOldPosts inside its transaction (SpecEvict)

\* tx.ExecContext: a DELETE run through the transaction of BeginTx leaves the
\* committed rows as they are and adds its victims to the transaction's
\* uncommitted deletes
TxExecAutocommit(committed, pending, victims) ==
  [committed |-> committed \ victims, pending |-> pending]
TxExec(committed, pending, victims) ==
  [committed |-> committed, pending |-> pending \cup victims]

\* the rows a statement of the transaction reads: what is committed by now,
\* less its own deletes
TxView(committed, pending) == committed \ pending

\* the rows a statement on another connection (r.db) reads: the committed ones
ReadCommitted(committed, pending) == committed

\* BeginTx
EvictBegin ==
  /\ txn.state = "closed"
  /\ \E maxAge \in 0..MaxAgeBound, maxRows \in 0..MaxRowsBound :
       txn' = [state |-> "open", step |-> "begun", maxAge |-> maxAge,
               maxRows |-> maxRows, pending |-> {}, ttlGone |-> {}, capGone |-> {}]
  /\ seen' = NoSeen
  /\ UNCHANGED <<front, posts, now, lastOp, lastPage, walk, src, sub, cursors, ctxDone, hist>>

\* DELETE FROM posts WHERE indexed_at < $1, through the transaction
EvictTtl ==
  /\ txn.state = "open" /\ txn.step = "begun"
  /\ LET victims == ExpiredRows(TxView(posts, txn.pending), now - txn.maxAge)
         x == TxExec(posts, txn.pending, victims)
     IN /\ posts' = x.committed
        /\ txn' = [txn EXCEPT !.step = "ttl", !.pending = x.pending,
                              !.ttlGone = victims]
  /\ seen' = NoSeen
  /\ UNCHANGED <<front, now, lastOp, lastPage, walk, src, sub, cursors, ctxDone, hist>>

\* DELETE FROM posts WHERE uri IN (... OFFSET $1), through the transaction
EvictCap ==
  /\ txn.state = "open" /\ txn.step = "ttl"
  /\ \E victims \in ExcessRows(TxView(posts, txn.pending), txn.maxRows) :
       LET x == TxExec(posts, txn.pending, victims)
       IN /\ posts' = x.committed
          /\ txn' = [txn EXCEPT !.step = "cap", !.pending = x.pending,
                                !.capGone = victims]
  /\ seen' = NoSeen
  /\ UNCHANGED <<front, now, lastOp, lastPage, walk, src, sub, cursors, ctxDone, hist>>

\* tx.Commit: the transaction's deletes take effect together
EvictCommit ==
  /\ txn.state = "open" /\ txn.step = "cap"
  /\ posts' = posts \ txn.pending
  /\ txn' = NoTxn
  /\ seen' = NoSeen
  /\ UNCHANGED <<front, now, lastOp, lastPage, walk, src, sub, cursors, ctxDone, hist>>

\* a failed statement or Commit, then the deferred tx.Rollback
EvictRollback ==
  /\ txn.state = "open"
  /\ txn' = NoTxn
  /\ seen' = NoSeen
  /\ UNCHANGED <<front, posts, now, lastOp, lastPage, walk, src, sub, cursors, ctxDone, hist>>

\* a row the open transaction has deleted is locked until it ends: another
\* connection's write to that uri waits
RowLocked(uri) ==
  txn.state = "open" /\ \E r \in txn.pending : r.uri = uri

\* the Subscriber's CreatePost, on its own connection
SubscriberCreate ==
  /\ \E u \in URIs, c \in CIDs :
       /\ ~RowLocked(u)
       /\ posts' = CreatePost(posts, Post(u, c, now))
  /\ seen' = NoSeen
  /\ UNCHANGED <<front, now, lastOp, lastPage, walk, txn, src, sub, cursors, ctxDone, hist>>

\* the Subscriber's DeletePost, on its own connection
SubscriberDelete ==
  /\ \E u \in URIs :
       /\ ~RowLocked(u)
       /\ posts' = DeletePost(posts, u)
  /\ seen' = NoSeen
  /\ UNCHANGED <<front, now, lastOp, lastPage, walk, txn, src, sub, cursors, ctxDone, hist>>

\* a GetFeedPosts call on r.db while the transaction may be open; `base` is
\* the store with none of the open transaction's deletes applied
QueryDuringEvict ==
  /\ \E limit \in {1, MaxLimit} :
       \E r \in GetFeedPosts(ReadCommitted(posts, IF txn.state = "open" THEN txn.pending ELSE {}),
                              limit, EmptyCursor) :
         seen' = [state |-> "read",
                  step |-> IF txn.state = "open" THEN txn.step ELSE "closed",
                  limit |-> limit, page |-> r.posts,
                  base |-> IF txn.state = "open"
                             THEN posts \cup txn.ttlGone \cup txn.capGone ELSE posts]
  /\ UNCHANGED <<front, posts, now, lastOp, lastPage, walk, txn, src, sub, cursors, ctxDone, hist>>

EvictTick ==
  /\ Tick
  /\ seen = NoSeen

NextEvict ==
  \/ EvictBegin \/ EvictTtl \/ EvictCap \/ EvictCommit \/ EvictRollback
  \/ SubscriberCreate \/ SubscriberDelete \/ QueryDuringEvict \/ EvictTick

SpecEvict == Init /\ [][NextEvict]_vars

\* ------------------------------------------- the Subscriber (SpecSub)

MaxEvents == 2         \* messages the source emits

storeOnly == <<lastOp, lastPage, walk, txn, seen, now>>

\* the messages Jetstream sends.  `matches` stands for matchesAnyFeed on the
\* record's text and langs; an "undecodable" message is one json.Unmarshal
\* rejects.
CommitMsg(op, did, rkey, cid, record, matches) ==
  [kind |-> "commit", operation |-> op, collection |-> PostCollection,
   did |-> did, rkey |-> rkey, cid |-> cid, record |-> record, matches |-> matches]
Messages ==
  {CommitMsg("create", "did:a", "k1", 1, TRUE, TRUE),
   CommitMsg("create", "did:a", "k2", 2, TRUE, TRUE),
   CommitMsg("create", "did:b", "k1", 1, TRUE, FALSE),
   CommitMsg("delete", "did:a", "k1", 1, FALSE, FALSE),
   [kind |-> "identity"],
   [kind |-> "undecodable"]}

\* Jetstream stamps each message with time_us, strictly increasing along the
\* stream: here the message's place in it
Emit ==
  /\ Len(src) < MaxEvents
  /\ \E m \in Messages : src' = Append(src, [time_us |-> Len(src) + 1, msg |-> m])
  /\ UNCHANGED <<front, posts, sub, cursors, ctxDone, hist>>
  /\ UNCHANGED storeOnly

\* cancel(), called by run on SIGINT/SIGTERM
Cancel ==
  /\ ~ctxDone
  /\ ctxDone' = TRUE
  /\ UNCHANGED <<front, posts, src, sub, cursors, hist>>
  /\ UNCHANGED storeOnly

\* Repository.GetCursor: the stored value, 0 when there is no row.  On a
\* failed read it returns the error together with the variable Scan was
\* given: 0 when the query failed before the row was read, the stored value
\* when Row.Scan had assigned it and closing the result set failed
\* (scanned).
GetCursor(stored, ok, scanned) ==
  IF ok THEN [cursor |-> stored, err |-> FALSE]
  ELSE [cursor |-> IF scanned THEN stored ELSE 0, err |-> TRUE]

\* an UpdateCursor whose statement changes no row
UpdateCursorKeep(stored, cursor) == stored
\* Repository.UpdateCursor: the upsert sets cursor_value
UpdateCursor(stored, cursor) == cursor

\* Subscriber.buildURL: the cursor parameter is set when cursor > 0
buildURLNoCursor(cursor) == [made |-> TRUE, resume |-> FALSE, cursor |-> 0]
buildURLRewind(cursor) ==
  IF cursor > 1 THEN [made |-> TRUE, resume |-> TRUE, cursor |-> cursor - 1]
  ELSE [made |-> TRUE, resume |-> cursor > 0, cursor |-> cursor]
buildURL(cursor) ==
  IF cursor > 0 THEN [made |-> TRUE, resume |-> TRUE, cursor |-> cursor]
  ELSE [made |-> TRUE, resume |-> FALSE, cursor |-> 0]

\* where Jetstream starts a connection: with a cursor at the first message
\* whose time_us is not below it, without one at the live edge
StartIndex(req) ==
  IF req.resume
    THEN LET at == {i \in 1..Len(src) : src[i].time_us >= req.cursor}
         IN IF at = {} THEN Len(src) + 1 ELSE CHOOSE i \in at : \A j \in at : i <= j
    ELSE Len(src) + 1

\* Start's loop head: return on a cancelled context, otherwise call subscribe
StartCheck ==
  /\ sub.pc = "idle"
  /\ sub' = [sub EXCEPT !.pc = IF ctxDone THEN "cancelled" ELSE "connecting"]
  /\ UNCHANGED <<front, posts, src, cursors, ctxDone, hist>>
  /\ UNCHANGED storeOnly

\* subscribe up to the dial: GetCursor, buildURL, DialContext.  A read or a
\* dial under a cancelled context fails, the read before any row is read.
Connect ==
  /\ sub.pc = "connecting"
  /\ \E readOk \in BOOLEAN, scanned \in BOOLEAN, dialOk \in BOOLEAN :
       /\ readOk => scanned
       /\ ctxDone => ~readOk /\ ~scanned /\ ~dialOk
       /\ LET got == GetCursor(cursors, readOk, scanned)
              req == buildURL(got.cursor)
              attempt == [made |-> TRUE, resume |-> req.resume, cursor |-> req.cursor,
                          readOk |-> ~got.err, stored |-> cursors]
          IN IF dialOk
               THEN /\ sub' = [pc |-> "streaming", open |-> TRUE, next |-> StartIndex(req),
                               latestCursor |-> 0, saveDue |-> FALSE, req |-> attempt]
                    /\ hist' = [hist EXCEPT
                                  !.firstNext = IF @ = 0 THEN StartIndex(req) ELSE @]
               ELSE /\ sub' = [IdleSub EXCEPT !.pc = "backoff", !.req = attempt]
                    /\ hist' = hist
  /\ UNCHANGED <<front, posts, src, cursors, ctxDone>>
  /\ UNCHANGED storeOnly

\* time.Since(lastCursorSave) reaches cursorSaveInterval
SaveIntervalElapses ==
  /\ sub.open
  /\ ~sub.saveDue
  /\ sub' = [sub EXCEPT !.saveDue = TRUE]
  /\ UNCHANGED <<front, posts, src, cursors, ctxDone, hist>>
  /\ UNCHANGED storeOnly

\* the head of subscribe's loop: return ctx.Err() on a cancelled context
\* (the deferred conn.Close runs), otherwise block in ReadMessage
StreamCheck ==
  /\ sub.pc = "streaming"
  /\ sub' = IF ctxDone THEN [IdleSub EXCEPT !.pc = "backoff", !.req = sub.req]
                       ELSE [sub EXCEPT !.pc = "reading"]
  /\ UNCHANGED <<front, posts, src, cursors, ctxDone, hist>>
  /\ UNCHANGED storeOnly

\* a variant of the read failure that dials again at once, without Start's wait
ReadErrorRedials ==
  /\ sub.pc = "reading"
  /\ sub' = [IdleSub EXCEPT !.pc = "connecting", !.req = sub.req]
  /\ UNCHANGED <<front, posts, src, cursors, ctxDone, hist>>
  /\ UNCHANGED storeOnly
\* a variant of the read failure that leaves the connection open
ReadErrorLeavesOpen ==
  /\ sub.pc = "reading"
  /\ sub' = [IdleSub EXCEPT !.pc = "backoff", !.req = sub.req, !.open = TRUE]
  /\ UNCHANGED <<front, posts, src, cursors, ctxDone, hist>>
  /\ UNCHANGED storeOnly
\* ReadMessage fails: subscribe returns the error, the connection is closed
ReadError ==
  /\ sub.pc = "reading"
  /\ sub' = [IdleSub EXCEPT !.pc = "backoff", !.req = sub.req]
  /\ UNCHANGED <<front, posts, src, cursors, ctxDone, hist>>
  /\ UNCHANGED storeOnly

\* the collections of the model that strings.HasPrefix(rc.Collection,
\* "app.bsky.feed.post") accepts: only for these is the record decoded
PostPrefixed == {PostCollection, "app.bsky.feed.postgate"}

\* a parser that takes any message for an event
parseEventLenient(m) ==
  [err |-> FALSE, TimeUS |-> m.time_us, Kind |-> m.msg.kind,
   Commit |-> IF m.msg.kind = "commit" THEN m.msg ELSE [kind |-> "nil"]]
\* parseEvent
parseEvent(m) ==
  IF m.msg.kind = "undecodable" THEN [err |-> TRUE]
  ELSE [err |-> FALSE, TimeUS |-> m.time_us, Kind |-> m.msg.kind,
        Commit |-> IF m.msg.kind = "commit" /\ "operation" \in DOMAIN m.msg
                     THEN [m.msg EXCEPT !.record = @ /\ m.msg.collection \in PostPrefixed]
                     ELSE [kind |-> "nil"]]

\* a position noted only on the session's first event
ObservedCursorFirst(latest, event) == IF latest = 0 THEN event.TimeUS ELSE latest
\* latestCursor = event.TimeUS
ObservedCursor(latest, event) == event.TimeUS

\* a ProcessNewPost that stores every post, matched or not
ProcessNewPostUnfiltered(rows, incoming, t, dbOk) ==
  IF dbOk
    THEN [rows |-> CreatePost(rows, Post(incoming.URI, incoming.CID, t)),
          matched |-> TRUE, err |-> FALSE]
    ELSE [rows |-> rows, matched |-> FALSE, err |-> TRUE]
\* FeedService.ProcessNewPost
ProcessNewPost(rows, incoming, t, dbOk) ==
  IF ~incoming.matches THEN [rows |-> rows, matched |-> FALSE, err |-> FALSE]
  ELSE IF dbOk
    THEN [rows |-> CreatePost(rows, Post(incoming.URI, incoming.CID, t)),
          matched |-> TRUE, err |-> FALSE]
    ELSE [rows |-> rows, matched |-> FALSE, err |-> TRUE]

\* FeedService.ProcessDeletePost
ProcessDeletePost(rows, uri, dbOk) ==
  IF dbOk THEN [rows |-> DeletePost(rows, uri), matched |-> FALSE, err |-> FALSE]
  ELSE [rows |-> rows, matched |-> FALSE, err |-> TRUE]

\* a variant of handleCommit that ignores delete events
handleCommitCreateOnly(rows, did, commit, t, dbOk) ==
  IF commit.collection # PostCollection
    THEN [rows |-> rows, matched |-> FALSE, err |-> FALSE]
  ELSE LET uri == MakeURI(did, commit.collection, commit.rkey)
       IN CASE commit.operation = "create" ->
                 IF ~commit.record
                   THEN [rows |-> rows, matched |-> FALSE, err |-> FALSE]
                   ELSE ProcessNewPost(rows, [URI |-> uri, CID |-> commit.cid,
                                              matches |-> commit.matches], t, dbOk)
            [] OTHER -> [rows |-> rows, matched |-> FALSE, err |-> FALSE]

\* Subscriber.handleCommit
handleCommit(rows, did, commit, t, dbOk) ==
  IF commit.collection # PostCollection
    THEN [rows |-> rows, matched |-> FALSE, err |-> FALSE]
  ELSE LET uri == MakeURI(did, commit.collection, commit.rkey)
       IN CASE commit.operation = "create" ->
                 IF ~commit.record
                   THEN [rows |-> rows, matched |-> FALSE, err |-> FALSE]
                   ELSE ProcessNewPost(rows, [URI |-> uri, CID |-> commit.cid,
                                              matches |-> commit.matches], t, dbOk)
            [] commit.operation = "delete" -> ProcessDeletePost(rows, uri, dbOk)
            [] OTHER -> [rows |-> rows, matched |-> FALSE, err |-> FALSE]

\* a variant of the loop turn in which an error of handleCommit is returned
\* from subscribe, ending the session
ReadMessageFatal ==
  /\ sub.pc = "reading"
  /\ sub.next <= Len(src)
  /\ LET m == src[sub.next]
         event == parseEvent(m)
     IN IF event.err
          THEN /\ sub' = [sub EXCEPT !.pc = "streaming", !.next = @ + 1]
               /\ UNCHANGED <<front, posts, cursors, hist>>
          ELSE \E dbOk \in BOOLEAN :
                 /\ ctxDone => ~dbOk
                 /\ LET latest == ObservedCursor(sub.latestCursor, event)
                        h == IF event.Kind = "commit" /\ event.Commit.kind # "nil"
                               THEN handleCommit(posts, event.Commit.did, event.Commit, now, dbOk)
                               ELSE [rows |-> posts, matched |-> FALSE, err |-> FALSE]
                    IN /\ posts' = h.rows
                       /\ cursors' = cursors
                       /\ sub' = IF h.err
                                   THEN [IdleSub EXCEPT !.pc = "backoff", !.req = sub.req]
                                   ELSE [sub EXCEPT !.pc = "streaming", !.next = @ + 1,
                                                    !.latestCursor = latest]
                       /\ hist' = [hist EXCEPT
                                     !.applied = IF h.err THEN @ ELSE @ \cup {sub.next}]
                       /\ UNCHANGED front
  /\ UNCHANGED <<src, ctxDone>>
  /\ UNCHANGED storeOnly

\* a variant of the loop turn in which a failed UpdateCursor also restarts
\* the save interval
ReadMessageSaveOnce ==
  /\ sub.pc = "reading"
  /\ sub.next <= Len(src)
  /\ LET m == src[sub.next]
         event == parseEvent(m)
     IN IF event.err
          THEN /\ sub' = [sub EXCEPT !.pc = "streaming", !.next = @ + 1]
               /\ UNCHANGED <<front, posts, cursors, hist>>
          ELSE \E dbOk \in BOOLEAN, saveOk \in BOOLEAN :
                 /\ ctxDone => ~dbOk /\ ~saveOk
                 /\ LET latest == ObservedCursor(sub.latestCursor, event)
                        h == IF event.Kind = "commit" /\ event.Commit.kind # "nil"
                               THEN handleCommit(posts, event.Commit.did, event.Commit, now, dbOk)
                               ELSE [rows |-> posts, matched |-> FALSE, err |-> FALSE]
                        saved == sub.saveDue /\ saveOk
                    IN /\ posts' = h.rows
                       /\ cursors' = IF saved THEN UpdateCursor(cursors, latest) ELSE cursors
                       /\ sub' = [sub EXCEPT !.pc = "streaming", !.next = @ + 1,
                                             !.latestCursor = latest,
                                             !.saveDue = FALSE]
                       /\ hist' = [hist EXCEPT
                                     !.applied = IF h.err THEN @ ELSE @ \cup {sub.next}]
  /\ UNCHANGED <<front, src, ctxDone>>
  /\ UNCHANGED storeOnly

\* one turn of subscribe's loop after ReadMessage returned a message: parse,
\* note the position, handle a commit, save the cursor when the interval has
\* elapsed.  A store call under a cancelled context fails.
ReadMessage ==
  /\ sub.pc = "reading"
  /\ sub.next <= Len(src)
  /\ LET m == src[sub.next]
         event == parseEvent(m)
     IN IF event.err
          THEN /\ sub' = [sub EXCEPT !.pc = "streaming", !.next = @ + 1]
               /\ UNCHANGED <<front, posts, cursors, hist>>
          ELSE \E dbOk \in BOOLEAN, saveOk \in BOOLEAN :
                 /\ ctxDone => ~dbOk /\ ~saveOk
                 /\ LET latest == ObservedCursor(sub.latestCursor, event)
                        h == IF event.Kind = "commit" /\ event.Commit.kind # "nil"
                               THEN handleCommit(posts, event.Commit.did, event.Commit, now, dbOk)
                               ELSE [rows |-> posts, matched |-> FALSE, err |-> FALSE]
                        saved == sub.saveDue /\ saveOk
                    IN /\ posts' = h.rows
                       /\ cursors' = IF saved THEN UpdateCursor(cursors, latest) ELSE cursors
                       /\ sub' = [sub EXCEPT !.pc = "streaming", !.next = @ + 1,
                                             !.latestCursor = latest,
                                             !.saveDue = IF saved THEN FALSE ELSE @]
                       /\ hist' = [hist EXCEPT
                                     !.applied = IF h.err THEN @ ELSE @ \cup {sub.next}]
  /\ UNCHANGED <<front, src, ctxDone>>
  /\ UNCHANGED storeOnly

\* a Start that returns subscribe's error instead of waiting
BackoffGivesUp ==
  /\ sub.pc = "backoff"
  /\ sub' = [sub EXCEPT !.pc = "cancelled"]
  /\ UNCHANGED <<front, posts, src, cursors, ctxDone, hist>>
  /\ UNCHANGED storeOnly
\* Start after subscribe returned an error: the 5 s timer fires
BackoffElapsed ==
  /\ sub.pc = "backoff"
  /\ sub' = IdleSub
  /\ UNCHANGED <<front, posts, src, cursors, ctxDone, hist>>
  /\ UNCHANGED storeOnly

\* a wait that only the timer ends
BackoffUninterruptible ==
  /\ FALSE
  /\ UNCHANGED vars
\* Start after subscribe returned an error: ctx.Done() is ready first
BackoffCancelled ==
  /\ sub.pc = "backoff"
  /\ ctxDone
  /\ sub' = [sub EXCEPT !.pc = "cancelled"]
  /\ UNCHANGED <<front, posts, src, cursors, ctxDone, hist>>
  /\ UNCHANGED storeOnly

NextSub ==
  \/ Emit \/ Cancel \/ StartCheck \/ Connect \/ SaveIntervalElapses
  \/ StreamCheck \/ ReadError \/ ReadMessage \/ BackoffElapsed \/ BackoffCancelled

SpecSub == Init /\ [][NextSub]_vars

\* The goroutine running Start is scheduled, a dial returns (it succeeds or
\* fails, at the latest at the handshake timeout) and the backoff timer fires.
\* Nothing is assumed of ReadMessage, which blocks for as long as the source
\* is silent, nor of the source or the signal.
SubFairness ==
  /\ WF_vars(StartCheck)
  /\ WF_vars(Connect)
  /\ WF_vars(StreamCheck)
  /\ WF_vars(BackoffElapsed)
  /\ WF_vars(BackoffCancelled)

SpecSubLive == Init /\ [][NextSub]_vars /\ SubFairness

\* ---------------------------------------------------------------- claims

\* a ranks strictly ahead of b under (indexedAt desc, uri desc)
UriOrderedBefore(a, b) ==
  \/ a.indexed_at > b.indexed_at
  \/ a.indexed_at = b.indexed_at /\ UriRank(a.uri) > UriRank(b.uri)

PageDone == lastPage.limit >= 1 /\ lastPage.err = "none"

\* C1 as stated: a walk over an unmodified store of N >= L posts that has
\* ended (empty nextCursor) has returned every stored post exactly once.
C1_PaginationComplete ==
  (walk.state = "done" /\ walk.limit <= Cardinality(posts))
    => /\ Len(walk.acc) = Cardinality(posts)
       /\ \A r \in posts : \E i \in 1..Len(walk.acc) : walk.acc[i] = r

\* C9 as stated: a page holds at most limit posts sorted by (indexedAt desc,
\* uri desc), and without cursor it starts at the newest post of that order.
C9_PageOrderByUri ==
  PageDone =>
    /\ Len(lastPage.posts) <= lastPage.limit
    /\ \A i, j \in 1..Len(lastPage.posts) :
         i < j => UriOrderedBefore(lastPage.posts[i], lastPage.posts[j])
    /\ (lastPage.cursor = EmptyCursor /\ posts # {})
         => /\ Len(lastPage.posts) >= 1
            /\ \A r \in posts \ {lastPage.posts[1]} :
                 UriOrderedBefore(lastPage.posts[1], r)

\* C9 amended: a page holds at most limit distinct posts sorted by
\* (indexed_at desc, cid desc) - posts that share indexed_at are ordered by
\* cid descending - and without cursor its first post is one that no stored
\* post precedes in that order.
C9_PageOrderByCid ==
  PageDone =>
    /\ Len(lastPage.posts) <= lastPage.limit
    /\ \A i, j \in 1..Len(lastPage.posts) :
         i < j => /\ lastPage.posts[i] # lastPage.posts[j]
                  /\ lastPage.posts[i].indexed_at >= lastPage.posts[j].indexed_at
                  /\ lastPage.posts[i].indexed_at = lastPage.posts[j].indexed_at
                       => lastPage.posts[i].cid >= lastPage.posts[j].cid
    /\ (lastPage.cursor = EmptyCursor /\ posts # {})
         => /\ Len(lastPage.posts) >= 1
            /\ \A r \in posts :
                 \/ r.indexed_at < lastPage.posts[1].indexed_at
                 \/ /\ r.indexed_at = lastPage.posts[1].indexed_at
                    /\ r.cid <= lastPage.posts[1].cid

\* a page without cursor holds two posts of one indexed_at, the higher cid
\* first, and a third post was left out by the limit
C9_Witness ==
  /\ PageDone
  /\ lastPage.cursor = EmptyCursor
  /\ Len(lastPage.posts) = 2
  /\ Cardinality(posts) = 3
  /\ lastPage.posts[1].indexed_at = lastPage.posts[2].indexed_at
  /\ lastPage.posts[1].cid > lastPage.posts[2].cid

UniqueUri(rows) == \A a, b \in rows : a.uri = b.uri => a = b

\* C5: a create for a uri that is already stored, reaching the database,
\* reports no error and leaves the store as it was (the stored row keeps its
\* cid and indexed_at); and the store never holds two rows of one uri.
C5_CreateIdempotent ==
  /\ UniqueUri(posts)
  /\ (/\ lastOp.op = "create"
      /\ lastOp.dbUp
      /\ \E r \in lastOp.before : r.uri = lastOp.post.uri)
     => /\ lastOp.err = "none"
        /\ posts = lastOp.before

\* a second create of a stored uri, with another cid and a later indexed_at,
\* has been executed
C5_Witness ==
  /\ lastOp.op = "create"
  /\ lastOp.dbUp
  /\ \E r \in lastOp.before :
        /\ r.uri = lastOp.post.uri
        /\ r.cid # lastOp.post.cid
        /\ r.indexed_at < lastOp.post.indexed_at

EvictDone == lastOp.op = "evict" /\ lastOp.err = "none"

\* the rows of the store before the call that are older than now - maxAge
OlderThanMaxAge == {r \in lastOp.before : r.indexed_at < lastOp.at - lastOp.maxAge}

\* C6: evict on a store of at most maxRows rows removes exactly the rows
\* older than now - maxAge, keeps every other row as it was, and returns the
\* number of rows removed.
C6_TtlEviction ==
  (EvictDone /\ Cardinality(lastOp.before) <= lastOp.maxRows)
    => /\ posts = lastOp.before \ OlderThanMaxAge
       /\ lastOp.deleted = Cardinality(OlderThanMaxAge)

\* an evict of a store within the cap has removed an expired row and kept an
\* unexpired one
C6_Witness ==
  /\ EvictDone
  /\ Cardinality(lastOp.before) <= lastOp.maxRows
  /\ OlderThanMaxAge # {}
  /\ posts # {}

Min(a, b) == IF a < b THEN a ELSE b

\* C7 as stated: after evict the store holds min(maxRows, unexpired) rows,
\* the returned count is the total removed, and the rows kept are the first
\* maxRows under (indexedAt desc, uri desc).
C7_RowCapByUri ==
  EvictDone =>
    LET unexpired == lastOp.before \ OlderThanMaxAge
    IN /\ Cardinality(posts) = Min(lastOp.maxRows, Cardinality(unexpired))
       /\ lastOp.deleted = Cardinality(lastOp.before) - Cardinality(posts)
       /\ posts \subseteq unexpired
       /\ \A k \in posts, v \in unexpired \ posts : UriOrderedBefore(k, v)

\* C7 amended: the rows kept are first under (indexed_at desc, cid desc): no
\* removed unexpired row ranks strictly ahead of a kept row in that order.
C7_RowCapByCid ==
  EvictDone =>
    LET unexpired == lastOp.before \ OlderThanMaxAge
    IN /\ Cardinality(posts) = Min(lastOp.maxRows, Cardinality(unexpired))
       /\ lastOp.deleted = Cardinality(lastOp.before) - Cardinality(posts)
       /\ posts \subseteq unexpired
       /\ \A k \in posts, v \in unexpired \ posts : ~OrderedBefore(v, k)

\* an evict of n > maxRows unexpired rows has removed n - maxRows of them,
\* keeping a newer row over an older one
C7_Witness ==
  /\ EvictDone
  /\ OlderThanMaxAge = {}
  /\ lastOp.maxRows >= 1
  /\ Cardinality(lastOp.before) > lastOp.maxRows
  /\ lastOp.deleted = Cardinality(lastOp.before) - lastOp.maxRows
  /\ \E k \in posts, v \in lastOp.before \ posts : OrderedBefore(k, v)
\* C8: a query never observes the TTL pass without the row-cap pass: while
\* DeleteOldPosts has run its TTL statement, or both statements, and has not
\* committed, a page is what GetFeedPosts returns on the store with none of
\* the evict's deletes applied.
C8_EvictAtomic ==
  (seen.state = "read" /\ seen.step \in {"ttl", "cap"})
    => \E r \in GetFeedPosts(seen.base, seen.limit, EmptyCursor) : r.posts = seen.page

\* a query has run between the TTL statement, which deleted a row, and the
\* row-cap statement, and has returned the row the TTL statement deleted
C8_Witness ==
  /\ seen.state = "read"
  /\ seen.step = "ttl"
  /\ txn.ttlGone # {}
  /\ \E i \in 1..Len(seen.page) : seen.page[i] \in txn.ttlGone
\* C2: the value in the Cursor Store never moves backward.
C2_CheckpointMonotonic == [][cursors' >= cursors]_vars

\* a second session, resumed from a stored checkpoint, has saved a later
\* position over the first session's
C2_Witness ==
  /\ sub.open
  /\ sub.req.resume
  /\ cursors > sub.req.stored

StoreEvent(m) ==
  /\ m.msg.kind = "commit"
  /\ m.msg.collection = PostCollection
  /\ \/ m.msg.operation = "create" /\ m.msg.record /\ m.msg.matches
     \/ m.msg.operation = "delete"

\* C4 as stated: every create/delete event at or below the persisted
\* checkpoint has had its effect applied to the Post Store (taken over the
\* events emitted since the Subscriber first connected).
C4_NoEventSkipped ==
  \A i \in 1..Len(src) :
    (/\ StoreEvent(src[i])
     /\ hist.firstNext >= 1
     /\ i >= hist.firstNext
     /\ src[i].time_us <= cursors)
      => i \in hist.applied

\* ------------------------------------------------------- cursor round trip

\* C11: the nextCursor returned with a page decodes to the ordering key of
\* the last post of that page, with the timestamp as stored and the same
\* tie-break value, so that the rows the next query selects as below the cursor
\* are exactly the rows ranked after the last returned post.
C11_CursorRoundTrip ==
  (PageDone /\ lastPage.nextCursor # EmptyCursor) =>
    LET last == lastPage.posts[Len(lastPage.posts)]
        c == parseCursor(lastPage.nextCursor)
    IN /\ c.err = "none"
       /\ c.time = last.indexed_at
       /\ c.cid = <<TxtSeg(last.cid)>>
       /\ {r \in posts : RowBelowCursor(r, c.time, c.cid)}
            = {r \in posts : OrderedBefore(last, r)}

\* ----------------------- a walk while the Subscriber inserts (SpecInsert)

\* the consumer's bookkeeping in a walk that runs beside the Subscriber:
\* WalkAfter's fields, the store as it was when the walk began (`base`), the
\* store as it was when the cursor in hand was issued (`issued`), and whether
\* every page so far was the page the store at issue would have given
\* (`stable`)
WalkBeside(w, base, stable) ==
  [state |-> w.state, limit |-> w.limit, cursor |-> w.cursor, acc |-> w.acc,
   base |-> base, issued |-> posts, stable |-> stable]

\* page(L, "") of a new walk
InsertWalkStart ==
  /\ walk.state # "going"
  /\ \E limit \in 1..MaxLimit :
       \E r \in GetFeedPosts(posts, limit, EmptyCursor) :
         walk' = WalkBeside(WalkAfter(<<>>, limit, r), posts, TRUE)
  /\ UNCHANGED <<front, posts, now, lastOp, lastPage, txn, seen, src, sub, cursors, ctxDone, hist>>

\* page(L, c) with the cursor of the previous call; rows may have been
\* inserted since that cursor was issued
InsertWalkNext ==
  /\ walk.state = "going"
  /\ LET last == walk.acc[Len(walk.acc)]
         ahead == \A r \in posts \ walk.issued : OrderedBefore(r, last)
         same == GetFeedPosts(posts, walk.limit, walk.cursor)
                   = GetFeedPosts(walk.issued, walk.limit, walk.cursor)
     IN \E r \in GetFeedPosts(posts, walk.limit, walk.cursor) :
          walk' = WalkBeside(WalkAfter(walk.acc, walk.limit, r), walk.base,
                             walk.stable /\ (ahead => same))
  /\ UNCHANGED <<front, posts, now, lastOp, lastPage, txn, seen, src, sub, cursors, ctxDone, hist>>

NextInsert == Tick \/ SubscriberCreate \/ InsertWalkStart \/ InsertWalkNext

SpecInsert == Init /\ [][NextInsert]_vars

\* C12: in a walk that runs while the Subscriber inserts, a page asked with
\* a cursor issued before insertions that all rank ahead of it is the page the
\* store would have given without them, no post is returned twice, and a walk
\* that has ended has returned every post the store held when it began.
C12_StableUnderInserts ==
  walk.state # "idle" =>
    /\ walk.stable
    /\ \A i, j \in 1..Len(walk.acc) : i # j => walk.acc[i].uri # walk.acc[j].uri
    /\ walk.state = "done" => \A r \in walk.base : \E i \in 1..Len(walk.acc) : walk.acc[i] = r

\* the part of C12 the code keeps: pages unchanged by insertions ahead of the
\* cursor, and no post returned twice
C12_StableNoRepeat ==
  walk.state # "idle" =>
    /\ walk.stable
    /\ \A i, j \in 1..Len(walk.acc) : i # j => walk.acc[i].uri # walk.acc[j].uri

\* a second page was served after a row was inserted ahead of its cursor
C12_Witness ==
  /\ walk.state # "idle"
  /\ Len(walk.acc) >= 2
  /\ \E r \in posts \ walk.base : OrderedBefore(r, walk.acc[1])

\* ------------------------------------------- rule sets and matching (SpecMatch)

MaxTextLen == 3        \* post texts of 0..MaxTextLen characters

\* A string is the sequence of its characters.  The characters of \w in the
\* regexp package: ASCII letters, digits and the underscore.
LowerCase == <<"a", "b", "c", "d", "e", "f", "g", "h", "i", "j", "k", "l", "m",
               "n", "o", "p", "q", "r", "s", "t", "u", "v", "w", "x", "y", "z">>
UpperCase == <<"A", "B", "C", "D", "E", "F", "G", "H", "I", "J", "K", "L", "M",
               "N", "O", "P", "Q", "R", "S", "T", "U", "V", "W", "X", "Y", "Z">>
Digits == {"0", "1", "2", "3", "4", "5", "6", "7", "8", "9"}
WordChars ==
  {LowerCase[i] : i \in 1..Len(LowerCase)} \cup {UpperCase[i] : i \in 1..Len(UpperCase)}
    \cup Digits \cup {"_"}
IsWordChar(c) == c \in WordChars

\* (?i): characters are compared after case folding
FoldCase(c) ==
  IF \E i \in 1..Len(UpperCase) : UpperCase[i] = c
    THEN LowerCase[CHOOSE i \in 1..Len(UpperCase) : UpperCase[i] = c]
    ELSE c

\* the characters regexp.QuoteMeta escapes
SpecialChars == {"\\", ".", "+", "*", "?", "(", ")", "|", "[", "]", "{", "}", "^", "$"}

\* a keyword used as pattern text unescaped
QuoteMetaNone(kw) == kw
\* regexp.QuoteMeta: a backslash goes before every special character
RECURSIVE QuoteMeta(_)
QuoteMeta(kw) ==
  IF kw = <<>> THEN <<>>
  ELSE (IF Head(kw) \in SpecialChars THEN <<"\\", Head(kw)>> ELSE <<Head(kw)>>)
         \o QuoteMeta(Tail(kw))

\* the atoms regexp.Compile reads from one alternative of the pattern text:
\* an escaped character and a plain character stand for themselves, an
\* unescaped "." for any character; another unescaped operator does not occur
\* in the alternatives this service builds
LitAtom(c) == [kind |-> "lit", ch |-> c]
AnyAtom == [kind |-> "any"]
RECURSIVE CompileAlt(_)
CompileAlt(e) ==
  IF e = <<>> THEN <<>>
  ELSE IF Head(e) = "\\" /\ Len(e) >= 2 THEN <<LitAtom(e[2])>> \o CompileAlt(Tail(Tail(e)))
  ELSE IF Head(e) = "." THEN <<AnyAtom>> \o CompileAlt(Tail(e))
  ELSE <<LitAtom(Head(e))>> \o CompileAlt(Tail(e))

\* regexp.Compile(`(?i)\b(?:` + strings.Join(escaped, "|") + `)\b`): the
\* alternatives, in order; joining no keyword gives the one empty alternative
CompilePattern(escaped) ==
  IF Len(escaped) = 0 THEN <<<<>>>>
  ELSE [i \in 1..Len(escaped) |-> CompileAlt(escaped[i])]

AtomMatches(atom, c) ==
  \/ atom.kind = "any" /\ c # "\n"
  \/ atom.kind = "lit" /\ FoldCase(atom.ch) = FoldCase(c)

\* the alternative matches text[i .. i + Len(alt) - 1]
AltMatchesAt(alt, text, i) ==
  /\ i + Len(alt) - 1 <= Len(text)
  /\ \A k \in 1..Len(alt) : AtomMatches(alt[k], text[i + k - 1])

\* a pattern without \b: the keyword may sit anywhere in the text
WordBoundaryAnywhere(text, p) == TRUE
\* \b at the gap before text[p]: a word character on exactly one side, the
\* outside of the text counting as not a word character
WordBoundary(text, p) ==
  ((p - 1 \in 1..Len(text)) /\ IsWordChar(text[p - 1]))
    # ((p \in 1..Len(text)) /\ IsWordChar(text[p]))

\* Regexp.MatchString: some alternative matches somewhere in the text
MatchString(pattern, text) ==
  \E a \in 1..Len(pattern), i \in 1..(Len(text) + 1) :
    /\ WordBoundary(text, i)
    /\ AltMatchesAt(pattern[a], text, i)
    /\ WordBoundary(text, i + Len(pattern[a]))

\* the feed NewFeedService builds from one FeedConfig; langs is nil unless
\* the configuration lists a language
CompileFeed(cfg) ==
  [uri |-> cfg.URI,
   pattern |-> CompilePattern([i \in 1..Len(cfg.Keywords) |-> QuoteMeta(cfg.Keywords[i])]),
   langs |-> IF Len(cfg.Langs) > 0
               THEN [nil |-> FALSE, set |-> {cfg.Langs[i] : i \in 1..Len(cfg.Langs)}]
               ELSE [nil |-> TRUE, set |-> {}]]

\* NewFeedService checking every configuration, that of no keyword included
NewFeedServiceUnchecked(configs) ==
  [err |-> "none", configs |-> configs,
   feeds |-> [u \in {configs[i].URI : i \in 1..Len(configs)} |->
                CompileFeed(configs[CHOOSE i \in 1..Len(configs) :
                                      /\ configs[i].URI = u
                                      /\ \A j \in (i + 1)..Len(configs) : configs[j].URI # u])]]
\* NewFeedService: the first configuration without keywords is an error;
\* otherwise the map of feeds by URI, a later configuration replacing an
\* earlier one of the same URI
NewFeedService(configs) ==
  IF \E i \in 1..Len(configs) : Len(configs[i].Keywords) = 0
    THEN [err |-> "at least one keyword is required", configs |-> configs]
    ELSE NewFeedServiceUnchecked(configs)

\* matchesFeed without the language test
matchesFeedTextOnly(f, incoming) == MatchString(f.pattern, incoming.Text)
\* matchesFeed
matchesFeed(f, incoming) ==
  IF ~f.langs.nil /\ ~(\E i \in 1..Len(incoming.Langs) : incoming.Langs[i] \in f.langs.set)
    THEN FALSE
    ELSE MatchString(f.pattern, incoming.Text)

\* FeedService.matchesAnyFeed
matchesAnyFeed(fs, incoming) == \E u \in DOMAIN fs : matchesFeed(fs[u], incoming)

\* the inputs: characters of each class (letters of both cases, punctuation
\* that is and is not a pattern operator), keywords, language lists
Chars == {"a", "A", "-", "."}
Texts == UNION {[1..n -> Chars] : n \in 0..MaxTextLen}
Keywords == {<<"a">>, <<"A">>, <<"-">>, <<".">>, <<"a", "a">>, <<"a", "-">>,
             <<"-", "a">>, <<"a", ".">>, <<"a", "-", "a">>, <<"a", ".", "a">>}
KeywordLists == {<<>>} \cup {<<k>> : k \in Keywords} \cup {<<<<"a", "a">>, k>> : k \in Keywords}
LangLists == {<<>>, <<"en">>, <<"en", "fr">>}
TagLists == {<<>>, <<"en">>, <<"de">>, <<"de", "fr">>}
FeedConfig(uri, keywords, langs) == [URI |-> uri, Keywords |-> keywords, Langs |-> langs]
OtherFeeds == {FeedConfig("feed2", <<<<"-">>>>, <<"de">>), FeedConfig("feed1", <<<<".">>>>, <<>>)}
\* the rule and the texts of the "gpt-4" scenario
Gpt4Config == FeedConfig("feed1", <<<<"g", "p", "t", "-", "4">>>>, <<>>)
TryingGpt4Today == <<"t", "r", "y", "i", "n", "g", " ", "g", "p", "t", "-", "4", " ",
                     "t", "o", "d", "a", "y">>
Gpt40Today == <<"g", "p", "t", "-", "4", "0", " ", "t", "o", "d", "a", "y">>
GPT4 == <<"G", "P", "T", "4">>
ConfigLists ==
  {<<>>, <<Gpt4Config>>}
    \cup {<<FeedConfig("feed1", k, l)>> : k \in KeywordLists, l \in LangLists}
    \cup {<<FeedConfig("feed1", k, l), g>> : k \in KeywordLists, l \in LangLists, g \in OtherFeeds}
IncomingPost(uri, cid, text, langs) == [URI |-> uri, CID |-> cid, Text |-> text, Langs |-> langs]
IncomingPosts ==
  {IncomingPost(UriOrder[1], 1, t, l) :
     t \in Texts \cup {TryingGpt4Today, Gpt40Today, GPT4}, l \in TagLists}

\* domain.NewFeedService(feedConfigs, ...)
NewFeedServiceCall ==
  /\ feeds = NoFeeds
  /\ \E configs \in ConfigLists : feeds' = NewFeedService(configs)
  /\ UNCHANGED <<cleanup, posts, now, lastOp, lastPage, walk, txn, seen, src, sub, cursors, ctxDone, hist,
                 match, proc, resp>>

\* s.matchesAnyFeed(incoming), called by ProcessNewPost (one call is followed)
MatchCall ==
  /\ feeds # NoFeeds
  /\ feeds.err = "none"
  /\ match = NoMatch
  /\ \E incoming \in IncomingPosts :
       match' = [state |-> "called", incoming |-> incoming,
                 result |-> matchesAnyFeed(feeds.feeds, incoming)]
  /\ UNCHANGED <<cleanup, posts, now, lastOp, lastPage, walk, txn, seen, src, sub, cursors, ctxDone, hist,
                 feeds, proc, resp>>

NextMatch == NewFeedServiceCall \/ MatchCall

SpecMatch == Init /\ [][NextMatch]_vars

\* ----------------------------------------------------- claims on matching

MatchDone == match # NoMatch /\ feeds # NoFeeds /\ feeds.err = "none"

\* the configurations in force: of those sharing a URI, the last
Registered(configs) ==
  {i \in 1..Len(configs) : \A j \in (i + 1)..Len(configs) : configs[j].URI # configs[i].URI}

\* the keyword, compared case-insensitively, is text[i .. i + Len(kw) - 1]
OccursAt(kw, text, i) ==
  /\ i >= 1
  /\ i + Len(kw) - 1 <= Len(text)
  /\ \A k \in 1..Len(kw) : FoldCase(kw[k]) = FoldCase(text[i + k - 1])

\* the text has a word character at position i
WordAt(text, i) == i \in 1..Len(text) /\ text[i] \in WordChars

\* the keyword stands in the text with no word character next to it
WholeWord(kw, text) ==
  \E i \in 1..Len(text) :
    /\ OccursAt(kw, text, i)
    /\ ~WordAt(text, i - 1)
    /\ ~WordAt(text, i + Len(kw))

\* the keyword stands in the text; next to an end of it that is a word
\* character there is no word character, next to an end of it that is not a
\* word character there is one
EdgedWord(kw, text) ==
  \E i \in 1..Len(text) :
    /\ Len(kw) >= 1
    /\ OccursAt(kw, text, i)
    /\ IF kw[1] \in WordChars THEN ~WordAt(text, i - 1) ELSE WordAt(text, i - 1)
    /\ IF kw[Len(kw)] \in WordChars
         THEN ~WordAt(text, i + Len(kw)) ELSE WordAt(text, i + Len(kw))

\* the rule has no allow-list, or one of the event's tags is in it
LangPasses(cfg, incoming) ==
  \/ Len(cfg.Langs) = 0
  \/ \E a \in 1..Len(incoming.Langs), b \in 1..Len(cfg.Langs) : incoming.Langs[a] = cfg.Langs[b]

\* C13 as stated: matchesAny is true exactly when some configured rule has a
\* keyword standing in the text as a whole word (a non-word character or the
\* start/end of the text on each side) and passes the language test.
C13_MatchesIffWholeWord ==
  MatchDone =>
    (match.result <=>
       \E i \in 1..Len(feeds.configs) :
         /\ LangPasses(feeds.configs[i], match.incoming)
         /\ \E k \in 1..Len(feeds.configs[i].Keywords) :
              WholeWord(feeds.configs[i].Keywords[k], match.incoming.Text))

\* C13 amended: matchesAny is true exactly when some rule in force (the last
\* configured one of each URI) passes the language test and has a keyword
\* standing in the text with a word boundary at each end: beside a keyword end
\* that is a word character no word character, beside a keyword end that is
\* not a word character a word character.
C13_MatchesIffEdgedWord ==
  MatchDone =>
    (match.result <=>
       \E i \in Registered(feeds.configs) :
         /\ LangPasses(feeds.configs[i], match.incoming)
         /\ \E k \in 1..Len(feeds.configs[i].Keywords) :
              EdgedWord(feeds.configs[i].Keywords[k], match.incoming.Text))

\* an event matched a rule that has a language allow-list through a keyword
\* that is only part of its text
C13_Witness ==
  /\ MatchDone
  /\ match.result
  /\ Len(feeds.configs) = 1
  /\ Len(feeds.configs[1].Langs) > 0
  /\ Len(match.incoming.Text) > Len(feeds.configs[1].Keywords[1])

\* C14: keywords match as literal strings: whenever an event matches, one of
\* the keywords in force stands in its text character for character (case
\* aside); and the rule ["gpt-4"] without language filter matches
\* "trying gpt-4 today" and matches neither "gpt-40 today" nor "GPT4".
C14_KeywordsLiteral ==
  MatchDone =>
    /\ match.result =>
         \E i \in Registered(feeds.configs) :
           \E k \in 1..Len(feeds.configs[i].Keywords) :
             \E p \in 1..Len(match.incoming.Text) :
               OccursAt(feeds.configs[i].Keywords[k], match.incoming.Text, p)
    /\ feeds.configs = <<Gpt4Config>> =>
         /\ match.incoming.Text = TryingGpt4Today => match.result
         /\ match.incoming.Text = Gpt40Today => ~match.result
         /\ match.incoming.Text = GPT4 => ~match.result

\* the rule ["gpt-4"] was asked about "trying gpt-4 today" and matched
C14_Witness ==
  /\ MatchDone
  /\ feeds.configs = <<Gpt4Config>>
  /\ match.incoming.Text = TryingGpt4Today
  /\ match.result

\* C15: an event matches only if some rule in force has no allow-list or
\* lists one of the event's tags (so an event without tags never matches a
\* rule with an allow-list); and when no rule in force has an allow-list the
\* answer is the same whatever the event's tags.
C15_LanguageTest ==
  MatchDone =>
    /\ match.result =>
         \E i \in Registered(feeds.configs) : LangPasses(feeds.configs[i], match.incoming)
    /\ (\A i \in Registered(feeds.configs) : Len(feeds.configs[i].Langs) = 0) =>
         \A l \in TagLists :
           matchesAnyFeed(feeds.feeds, [match.incoming EXCEPT !.Langs = l]) = match.result

\* an event without language tags, whose text holds the keyword, was refused
\* by a rule with an allow-list
C15_Witness ==
  /\ MatchDone
  /\ ~match.result
  /\ match.incoming.Langs = <<>>
  /\ Len(feeds.configs) = 1
  /\ Len(feeds.configs[1].Langs) > 0
  /\ \E k \in 1..Len(feeds.configs[1].Keywords) :
       EdgedWord(feeds.configs[1].Keywords[k], match.incoming.Text)

\* --------------------------------------- the server process (SpecRun)

DefaultLimit == 50     \* limit := 50
MaxPageLimit == 100    \* parsed > 100

\* a GetFeedSkeleton whose page depends on the feed asked for: it queries the
\* store for "feed1" and serves any other registered feed an empty page
GetFeedSkeletonPerFeed(fs, rows, feedURI, limit, cursor, dbUp) ==
  IF feedURI \notin DOMAIN fs
    THEN {[err |-> "unknown feed", Posts |-> <<>>, Cursor |-> EmptyCursor]}
    ELSE {IF r.err # "none" \/ ~dbUp
            THEN [err |-> "get feed posts", Posts |-> <<>>, Cursor |-> EmptyCursor]
          ELSE [err |-> "none",
                Posts |-> [i \in 1..Len(r.posts) |-> r.posts[i].uri],
                Cursor |-> r.nextCursor] :
            r \in GetFeedPosts(IF feedURI = "feed1" THEN rows ELSE {}, limit, cursor)}

\* FeedService.GetFeedSkeleton: the results it may return.  dbUp: the query
\* reaches the database.
GetFeedSkeleton(fs, rows, feedURI, limit, cursor, dbUp) ==
  IF feedURI \notin DOMAIN fs
    THEN {[err |-> "unknown feed", Posts |-> <<>>, Cursor |-> EmptyCursor]}
    ELSE {IF r.err # "none"
            THEN [err |-> "get feed posts", Posts |-> <<>>, Cursor |-> EmptyCursor]
          ELSE IF ~dbUp
            THEN [err |-> "get feed posts", Posts |-> <<>>, Cursor |-> EmptyCursor]
          ELSE [err |-> "none",
                Posts |-> [i \in 1..Len(r.posts) |-> r.posts[i].uri],
                Cursor |-> r.nextCursor] :
            r \in GetFeedPosts(rows, limit, cursor)}

\* the limit query parameter: absent, a decimal number, or other text
NoParam == [kind |-> "absent"]
IntParam(n) == [kind |-> "int", val |-> n]
TextParam == [kind |-> "text"]

\* writeError / writeJSON
ErrorResponse(status, errType, message) ==
  [status |-> status, error |-> errType, message |-> message,
   feed |-> <<>>, cursor |-> EmptyCursor]
SkeletonResponse(skeleton) ==
  [status |-> 200, error |-> "none", message |-> "",
   feed |-> skeleton.Posts, cursor |-> skeleton.Cursor]

\* Server.handleGetFeedSkeleton: the responses it may write
handleGetFeedSkeleton(fs, rows, req) ==
  IF req.feed = ""
    THEN {ErrorResponse(400, "InvalidRequest", "feed parameter is required")}
  ELSE IF /\ req.limit # NoParam
          /\ \/ req.limit.kind = "text"
             \/ req.limit.val < 1
             \/ req.limit.val > MaxPageLimit
    THEN {ErrorResponse(400, "InvalidRequest", "limit must be between 1 and 100")}
  ELSE LET limit == IF req.limit = NoParam THEN DefaultLimit ELSE req.limit.val
       IN {IF sk.err # "none"
             THEN ErrorResponse(500, "InternalError", "failed to get feed")
             ELSE SkeletonResponse(sk) :
             sk \in GetFeedSkeleton(fs, rows, req.feed, limit, req.cursor, req.dbUp)}

\* the feed configurations run may be given, the requests a client may send,
\* the posts the source may deliver
RunConfigLists ==
  {<<>>,
   <<FeedConfig("feed1", <<>>, <<>>)>>,
   <<FeedConfig("feed1", <<<<"a">>>>, <<>>)>>,
   <<FeedConfig("feed1", <<<<"a">>>>, <<"en">>), FeedConfig("feed2", <<>>, <<>>)>>,
   <<FeedConfig("feed1", <<>>, <<"en">>), FeedConfig("feed2", <<<<"-">>>>, <<>>)>>,
   <<FeedConfig("feed1", <<<<"a">>>>, <<"en">>), FeedConfig("feed2", <<<<"-">>>>, <<>>)>>}
Requests ==
  [feed : {"", "feed1", "feed2", "feed9"},
   limit : {NoParam, TextParam} \cup {IntParam(n) : n \in {0, 1, MaxPageLimit, MaxPageLimit + 1}},
   cursor : {EmptyCursor, <<IntSeg(0), TxtSeg(NumCids)>>, <<TxtSeg(1)>>, <<IntSeg(0)>>},
   dbUp : BOOLEAN]
RunIncoming ==
  {IncomingPost(u, c, t, l) : u \in URIs, c \in CIDs, t \in {<<"a">>, <<"-">>}, l \in {<<>>, <<"en">>}}

\* run: a step that fails returns the error, nothing started
Exited(err) ==
  [pc |-> "exited", err |-> err, subscriber |-> FALSE, sweeper |-> FALSE, http |-> FALSE]
Running(pc, subscriber, sweeper, http) ==
  [pc |-> pc, err |-> "none", subscriber |-> subscriber, sweeper |-> sweeper, http |-> http]

\* config.Load()
RunLoadConfig ==
  /\ proc = NoProc
  /\ \E ok \in BOOLEAN :
       proc' = IF ok THEN Running("repository", FALSE, FALSE, FALSE) ELSE Exited("load config")
  /\ UNCHANGED <<cleanup, posts, now, lastOp, lastPage, walk, txn, seen, src, sub, cursors, ctxDone, hist,
                 feeds, match, resp>>

\* postgres.NewRepository(cfg.DatabaseURL)
RunNewRepository ==
  /\ proc.pc = "repository"
  /\ \E ok \in BOOLEAN :
       proc' = IF ok THEN Running("service", FALSE, FALSE, FALSE)
               ELSE Exited("create repository")
  /\ UNCHANGED <<cleanup, posts, now, lastOp, lastPage, walk, txn, seen, src, sub, cursors, ctxDone, hist,
                 feeds, match, resp>>

\* domain.NewFeedService(feedConfigs, repo, repo, logger)
RunNewFeedService ==
  /\ proc.pc = "service"
  /\ \E configs \in RunConfigLists :
       LET svc == NewFeedService(configs)
       IN /\ feeds' = svc
          /\ proc' = IF svc.err # "none" THEN Exited("create feed service")
                     ELSE Running("subscriber", FALSE, FALSE, FALSE)
  /\ UNCHANGED <<cleanup, posts, now, lastOp, lastPage, walk, txn, seen, src, sub, cursors, ctxDone, hist,
                 match, resp>>

\* go subscriber.Start(ctx)
RunStartSubscriber ==
  /\ proc.pc = "subscriber"
  /\ proc' = Running("cleanup", TRUE, FALSE, FALSE)
  /\ UNCHANGED <<cleanup, posts, now, lastOp, lastPage, walk, txn, seen, src, sub, cursors, ctxDone, hist,
                 feeds, match, resp>>

\* go feedService.StartCleanupJob(...)
RunStartCleanup ==
  /\ proc.pc = "cleanup"
  /\ proc' = Running("http", TRUE, TRUE, FALSE)
  /\ UNCHANGED <<cleanup, posts, now, lastOp, lastPage, walk, txn, seen, src, sub, cursors, ctxDone, hist,
                 feeds, match, resp>>

\* go server.Start()
RunStartHTTP ==
  /\ proc.pc = "http"
  /\ proc' = Running("wait", TRUE, TRUE, TRUE)
  /\ UNCHANGED <<cleanup, posts, now, lastOp, lastPage, walk, txn, seen, src, sub, cursors, ctxDone, hist,
                 feeds, match, resp>>

\* sig := <-sigCh; cancel(); server.Shutdown; return nil
RunSignal ==
  /\ proc.pc = "wait"
  /\ ctxDone' = TRUE
  /\ proc' = Exited("none")
  /\ UNCHANGED <<cleanup, posts, now, lastOp, lastPage, walk, txn, seen, src, sub, cursors, hist,
                 feeds, match, resp>>

\* the started Subscriber hands a created post to ProcessNewPost
RunIngest ==
  /\ proc # NoProc
  /\ proc.subscriber
  /\ \E incoming \in RunIncoming :
       posts' = ProcessNewPost(posts,
                               [URI |-> incoming.URI, CID |-> incoming.CID,
                                matches |-> matchesAnyFeed(feeds.feeds, incoming)],
                               now, TRUE).rows
  /\ UNCHANGED <<cleanup, now, lastOp, lastPage, walk, txn, seen, src, sub, cursors, ctxDone, hist,
                 feeds, match, proc, resp>>

\* the started HTTP server answers a getFeedSkeleton request (one request is
\* followed)
RunServe ==
  /\ proc # NoProc
  /\ proc.http
  /\ resp = NoResp
  /\ \E req \in Requests :
       \E r \in handleGetFeedSkeleton(feeds.feeds, posts, req) :
         resp' = r @@ [req |-> req]
  /\ UNCHANGED <<cleanup, posts, now, lastOp, lastPage, walk, txn, seen, src, sub, cursors, ctxDone, hist,
                 feeds, match, proc>>

NextRun ==
  \/ RunLoadConfig \/ RunNewRepository \/ RunNewFeedService
  \/ RunStartSubscriber \/ RunStartCleanup \/ RunStartHTTP \/ RunSignal
  \/ RunIngest \/ RunServe

SpecRun == Init /\ [][NextRun]_vars

\* ------------------------------------- claims on start-up and the read path

\* C16: when a feed configuration declares zero keywords, NewFeedService
\* returns an error and no service, and run has returned that error with the
\* Subscriber, the Sweeper and the HTTP server not started: no post has been
\* ingested and no request served.
C16_NoKeywordsNoStart ==
  (feeds # NoFeeds /\ \E i \in 1..Len(feeds.configs) : Len(feeds.configs[i].Keywords) = 0) =>
    /\ feeds.err # "none"
    /\ "feeds" \notin DOMAIN feeds
    /\ proc = Exited("create feed service")
    /\ posts = {}
    /\ resp = NoResp

\* run has returned NewFeedService's error for a list whose second
\* configuration is the one without keywords
C16_Witness ==
  /\ proc = Exited("create feed service")
  /\ Len(feeds.configs) = 2
  /\ Len(feeds.configs[1].Keywords) > 0
  /\ Len(feeds.configs[2].Keywords) = 0

\* the request's limit is not a number in 1..100
BadLimit(req) ==
  /\ req.limit # NoParam
  /\ \/ req.limit.kind = "text"
     \/ req.limit.val < 1
     \/ req.limit.val > MaxPageLimit
\* the request names a feed that is not registered
UnknownFeed(req) == req.feed # "" /\ req.feed \notin DOMAIN feeds.feeds
\* the request's cursor does not decode
BadCursor(req) == req.cursor # EmptyCursor /\ parseCursor(req.cursor).err # "none"

\* C17 as stated: a request with an undecodable cursor, an unregistered feed
\* or a page size outside 1..100 is answered with a request rejection (400,
\* not InternalError), and an undecodable cursor is never answered with a page.
C17_ClientErrorsRejected ==
  resp # NoResp =>
    /\ (BadLimit(resp.req) \/ UnknownFeed(resp.req) \/ BadCursor(resp.req)) =>
         resp.status = 400 /\ resp.error # "InternalError"
    /\ (resp.req.feed # "" /\ BadCursor(resp.req)) => resp.status # 200

\* ------------------------------------------- claims on the reconnect loop

\* C18: a connection error (a failed dial, a failed read) puts the
\* Subscriber in its backoff wait; from the wait it attempts to connect again
\* unless cancellation is signalled, after every failure; and Start returns
\* only when cancellation has been signalled.
C18_ReconnectLiveness ==
  /\ [][((sub.pc = "connecting" /\ sub'.pc \notin {"connecting", "streaming"})
           \/ (sub.pc = "reading" /\ ~sub'.open))
          => sub'.pc = "backoff"]_vars
  /\ [](sub.pc = "cancelled" => ctxDone)
  /\ (sub.pc = "backoff") ~> (sub.pc = "connecting" \/ ctxDone)

\* after a session that had been opened ended, the Subscriber is connecting
\* again, no cancellation signalled
C18_Witness ==
  /\ sub.pc = "connecting"
  /\ hist.firstNext >= 1
  /\ ~ctxDone

\* C19: once cancellation is signalled while the Subscriber holds no
\* connection, it opens none and reaches Cancelled; in the backoff wait the
\* way to Cancelled is open at once, whatever the timer.
C19_CancelStopsReconnect ==
  /\ [][(ctxDone /\ ~sub.open) => ~sub'.open]_vars
  /\ []((sub.pc = "backoff" /\ ctxDone) => ENABLED BackoffCancelled)
  /\ (ctxDone /\ sub.pc \in {"idle", "backoff"}) ~> (sub.pc = "cancelled")

\* the Subscriber went from the backoff wait after a failed attempt to
\* Cancelled
C19_Witness ==
  /\ sub.pc = "cancelled"
  /\ sub.req # NoReq
  /\ ~sub.open

\* C20: the turn of the loop that reads a message which does not decode
\* leaves the connection open and the Subscriber streaming, leaves the Post
\* Store, the latest observed position and the persisted checkpoint as they
\* were, and moves on to the next message.
C20_UndecodableDropped ==
  [][(/\ sub.pc = "reading"
      /\ sub.next <= Len(src)
      /\ src[sub.next].msg.kind = "undecodable"
      /\ sub'.next = sub.next + 1)
       => /\ sub'.open
          /\ sub'.pc = "streaming"
          /\ posts' = posts
          /\ cursors' = cursors
          /\ sub'.latestCursor = sub.latestCursor]_vars

\* in one session the Subscriber read an event at position 1 and then passed
\* over the undecodable message at position 2
C20_Witness ==
  /\ sub.open
  /\ sub.pc = "streaming"
  /\ Len(src) = 2
  /\ src[2].msg.kind = "undecodable"
  /\ sub.next = 3
  /\ sub.latestCursor = src[1].time_us

\* -------------------------------------------- the retention job (SpecSweep)
\*
\* FeedService.StartCleanupJob runs in its own goroutine.  cleanup.pc is where
\* it stands: "off" (not started), "evicting" (inside runCleanup, that is
\* inside Repository.DeleteOldPosts), "waiting" (blocked in the select),
\* "stopped" (returned).  cleanup.ticker is the channel ticker.C, which
\* holds at most one tick: "none" before time.NewTicker, then "empty" or
\* "full"; a tick that fires while the channel is full is dropped by the
\* runtime and changes nothing.  cleanup.inflight counts the calls of
\* runCleanup that have not returned.

\* Repository.DeleteOldPosts(maxAge, maxRows) at time t: the stores it can
\* leave.  err names the statement that fails, "none" when all succeed; a
\* failure rolls the transaction back.
DeleteOldPosts(rows, t, maxAge, maxRows, err) ==
  LET kept == rows \ ExpiredRows(rows, t - maxAge)
  IN IF err = "none"
       THEN {kept \ excess : excess \in ExcessRows(kept, maxRows)}
       ELSE {rows}

\* the arguments the job is started with (main passes one maxAge and one
\* maxRows for the life of the process)
CleanupArgs == {0, MaxAgeBound} \X {1, MaxRowsBound}

\* go feedService.StartCleanupJob(ctx, interval, maxAge, maxRows): the first
\* statement is the call of runCleanup
StartCleanupJob ==
  /\ cleanup = NoCleanup
  /\ \E a \in CleanupArgs :
       cleanup' = [pc |-> "evicting", ticker |-> "none", maxAge |-> a[1],
                   maxRows |-> a[2], failed |-> FALSE, ran |-> FALSE,
                   inflight |-> 1]
  /\ UNCHANGED <<posts, now, lastOp, lastPage, walk, txn, seen, src, sub, cursors, ctxDone,
                 hist, feeds, match, proc, resp>>

\* a variant of runCleanup's return in which a failed evict ends the job
runCleanupFatal ==
  /\ cleanup.pc = "evicting"
  /\ \E err \in EvictErrs :
       /\ ctxDone => err # "none"
       /\ \E rows \in DeleteOldPosts(posts, now, cleanup.maxAge, cleanup.maxRows, err) :
            posts' = rows
       /\ cleanup' = [cleanup EXCEPT
                        !.pc = IF err = "none" THEN "waiting" ELSE "stopped",
                        !.ticker = IF cleanup.ticker = "none" THEN "empty" ELSE @,
                        !.failed = err # "none",
                        !.ran = TRUE,
                        !.inflight = @ - 1]
  /\ UNCHANGED <<now, lastOp, lastPage, walk, txn, seen, src, sub, cursors, ctxDone,
                 hist, feeds, match, proc, resp>>

\* runCleanup returns: DeleteOldPosts has committed or failed (a cancelled
\* context fails it), the error is only logged, and the job goes (back) to
\* the select; after the first run that is where the ticker is created
runCleanup ==
  /\ cleanup.pc = "evicting"
  /\ \E err \in EvictErrs :
       /\ ctxDone => err # "none"
       /\ \E rows \in DeleteOldPosts(posts, now, cleanup.maxAge, cleanup.maxRows, err) :
            posts' = rows
       /\ cleanup' = [cleanup EXCEPT
                        !.pc = "waiting",
                        !.ticker = IF cleanup.ticker = "none" THEN "empty" ELSE @,
                        !.failed = err # "none",
                        !.ran = TRUE,
                        !.inflight = @ - 1]
  /\ UNCHANGED <<now, lastOp, lastPage, walk, txn, seen, src, sub, cursors, ctxDone,
                 hist, feeds, match, proc, resp>>

\* the interval elapses and the runtime puts a tick on ticker.C
TickerFires ==
  /\ cleanup # NoCleanup
  /\ cleanup.pc # "stopped"
  /\ cleanup.ticker = "empty"
  /\ cleanup' = [cleanup EXCEPT !.ticker = "full"]
  /\ UNCHANGED <<posts, now, lastOp, lastPage, walk, txn, seen, src, sub, cursors, ctxDone,
                 hist, feeds, match, proc, resp>>

\* a variant that starts runCleanup for every tick as it fires, without
\* waiting for the running one to return
CleanupTickAsync ==
  /\ cleanup # NoCleanup
  /\ cleanup.pc \in {"waiting", "evicting"}
  /\ cleanup.ticker = "full"
  /\ cleanup.inflight < 2
  /\ cleanup' = [cleanup EXCEPT !.pc = "evicting", !.ticker = "empty",
                                !.inflight = @ + 1]
  /\ UNCHANGED <<posts, now, lastOp, lastPage, walk, txn, seen, src, sub, cursors, ctxDone,
                 hist, feeds, match, proc, resp>>

\* select, case <-ticker.C: the tick is taken and runCleanup is called
\* (the select may take this case also when ctx.Done() is ready)
CleanupTick ==
  /\ cleanup # NoCleanup
  /\ cleanup.pc = "waiting"
  /\ cleanup.ticker = "full"
  /\ cleanup' = [cleanup EXCEPT !.pc = "evicting", !.ticker = "empty",
                                !.inflight = @ + 1]
  /\ UNCHANGED <<posts, now, lastOp, lastPage, walk, txn, seen, src, sub, cursors, ctxDone,
                 hist, feeds, match, proc, resp>>

\* select, case <-ctx.Done(): return (the deferred ticker.Stop runs)
CleanupCancelled ==
  /\ cleanup # NoCleanup
  /\ cleanup.pc = "waiting"
  /\ ctxDone
  /\ cleanup' = [cleanup EXCEPT !.pc = "stopped"]
  /\ UNCHANGED <<posts, now, lastOp, lastPage, walk, txn, seen, src, sub, cursors, ctxDone,
                 hist, feeds, match, proc, resp>>

\* the Subscriber keeps inserting while the job runs; the clock advances;
\* the context may be cancelled at any moment
NextSweep ==
  \/ Tick
  \/ SubscriberCreate
  \/ Cancel
  \/ StartCleanupJob
  \/ runCleanup
  \/ TickerFires
  \/ CleanupTick
  \/ CleanupCancelled

SpecSweep == Init /\ [][NextSweep]_vars

\* the goroutine is scheduled, the database answers, and the ticker keeps
\* firing
SweepFairness ==
  /\ WF_vars(runCleanup)
  /\ WF_vars(TickerFires)
  /\ WF_vars(CleanupTick)
  /\ WF_vars(CleanupCancelled)

SpecSweepLive == Init /\ [][NextSweep]_vars /\ SweepFairness

\* C21: the job calls evict as its first step, then once for every tick it
\* takes from the ticker while it is not cancelled; whatever the evict
\* returns, the job goes back to waiting, and from waiting the next evict
\* follows unless the context is cancelled.
C21_SweeperLoop ==
  /\ [][(cleanup.pc = "off" /\ cleanup' # cleanup) => cleanup'.pc = "evicting"]_vars
  /\ [][(cleanup.pc = "evicting" /\ cleanup'.pc # "evicting")
          => (cleanup'.pc = "waiting" /\ cleanup'.ran)]_vars
  /\ [][(cleanup.pc = "waiting" /\ cleanup.ticker = "full" /\ cleanup'.ticker = "empty")
          => cleanup'.pc = "evicting"]_vars
  /\ [][(cleanup.pc = "waiting" /\ cleanup'.pc = "evicting")
          => (cleanup.ticker = "full" /\ cleanup'.ticker = "empty")]_vars
  /\ [][(cleanup.pc = "waiting" /\ cleanup'.pc = "stopped") => ctxDone]_vars
  /\ (cleanup.pc = "waiting") ~> (cleanup.pc = "evicting" \/ ctxDone)

\* a tick has started an evict after the previous evict failed, with the
\* context still live
C21_Witness ==
  /\ cleanup.pc = "evicting"
  /\ cleanup.ran
  /\ cleanup.failed
  /\ ~ctxDone

\* ------------------- the two background jobs on one Post Store (SpecJobs)
\*
\* The Subscriber and the retention job as run starts them, side by side on
\* the same table, while the context is live: the Subscriber connects,
\* reads and handles what the source emits; the job evicts at start and on
\* its ticks.  Every store call of either may fail.
NextJobs ==
  \/ Emit
  \/ StartCheck
  \/ Connect
  \/ BackoffElapsed
  \/ StreamCheck
  \/ ReadMessage
  \/ StartCleanupJob
  \/ runCleanup
  \/ TickerFires
  \/ CleanupTick

SpecJobs == Init /\ [][NextJobs]_vars

\* the loop turn on the message at sub.next is ending with a store error:
\* the message is a commit and its position does not join the applied ones
StoreCallFails ==
  /\ sub.pc = "reading"
  /\ sub.next <= Len(src)
  /\ src[sub.next].msg.kind = "commit"
  /\ sub' # sub
  /\ sub.next \notin hist'.applied

\* C22: a loop turn whose store call fails leaves the Subscriber streaming
\* on the same open connection, positioned on the next message, with the
\* store as it was; an evict that fails leaves the retention job waiting
\* for its ticker, the store as it was, and the next tick starts an evict.
C22_StoreFailureSurvived ==
  /\ [][StoreCallFails
          => /\ sub'.pc = "streaming"
             /\ sub'.open
             /\ sub'.req = sub.req
             /\ sub'.next = sub.next + 1
             /\ posts' = posts
             /\ cleanup' = cleanup]_vars
  /\ [][(cleanup.pc = "evicting" /\ cleanup'.pc # "evicting" /\ cleanup'.failed)
          => /\ cleanup'.pc = "waiting"
             /\ cleanup'.ticker # "none"
             /\ posts' = posts
             /\ sub' = sub]_vars
  /\ [][(cleanup.pc = "waiting" /\ cleanup.failed /\ cleanup' # cleanup)
          => \/ cleanup'.pc = "waiting" /\ cleanup'.ticker = "full"
             \/ cleanup'.pc = "evicting" /\ cleanup.ticker = "full"]_vars

\* the Subscriber has just survived a failed store call and is streaming,
\* and the retention job has started an evict on a tick after a failed one
C22_Witness ==
  /\ sub.pc = "streaming"
  /\ sub.open
  /\ sub.next >= 2
  /\ src[sub.next - 1].msg.kind = "commit"
  /\ (sub.next - 1) \notin hist.applied
  /\ cleanup.pc = "evicting"
  /\ cleanup.failed

\* ------------------ ingestion when the database answers (SpecReplay)
\*
\* The Subscriber alone, with disconnects and reconnects, the clock
\* advancing, and a database that answers: CreatePost and DeletePost return
\* no error and GetCursor returns the stored checkpoint.  A checkpoint
\* write may still fail.  Nothing evicts.

\* the rows after the loop turn on message m at time t when the store call
\* succeeds (subscribe lines 116-131)
Handled(rows, m, t) ==
  LET event == parseEvent(m)
  IN IF event.err THEN rows
     ELSE IF event.Kind = "commit" /\ event.Commit.kind # "nil"
            THEN handleCommit(rows, event.Commit.did, event.Commit, t, TRUE).rows
            ELSE rows

\* subscribe up to the dial, GetCursor succeeding
ConnectCursorRead ==
  /\ Connect
  /\ sub'.req.readOk

\* the loop turn, CreatePost/DeletePost succeeding
ReadMessageStored ==
  /\ ReadMessage
  /\ posts' = Handled(posts, src[sub.next], now)
  /\ parseEvent(src[sub.next]).err \/ sub.next \in hist'.applied

NextReplay ==
  \/ Emit
  \/ Tick
  \/ StartCheck
  \/ ConnectCursorRead
  \/ SaveIntervalElapses
  \/ StreamCheck
  \/ ReadError
  \/ ReadMessageStored
  \/ BackoffElapsed

SpecReplay == Init /\ [][NextReplay]_vars

\* the uri a commit message names
UriOf(m) == MakeURI(m.msg.did, m.msg.collection, m.msg.rkey)
\* message m is a create event for uri u that matched a rule
IsMatchedCreate(m, u) ==
  /\ m.msg.kind = "commit"
  /\ m.msg.operation = "create"
  /\ m.msg.record
  /\ m.msg.matches
  /\ UriOf(m) = u
\* message m is a delete event for uri u
IsDelete(m, u) ==
  /\ m.msg.kind = "commit"
  /\ m.msg.operation = "delete"
  /\ UriOf(m) = u
\* messages from..to hold a matched create for u and no delete for u after it
Survives(u, from, to) ==
  \E i \in from..to :
    /\ IsMatchedCreate(src[i], u)
    /\ \A j \in (i + 1)..to : ~IsDelete(src[j], u)
\* the uris stored
StoredUris == {r.uri : r \in posts}
\* every message from the first session's start up to the Subscriber's
\* position has been handled (or dropped as undecodable), and none beyond
HandledUpToPosition ==
  /\ sub.open
  /\ hist.firstNext >= 1
  /\ \A i \in hist.applied : hist.firstNext <= i /\ i < sub.next
  /\ \A i \in hist.firstNext..(sub.next - 1) :
       i \in hist.applied \/ parseEvent(src[i]).err

\* C23: when the Subscriber, never having resumed from a checkpoint, has
\* handled the messages from..to once each in order, a uri is stored
\* exactly if they hold a matched create for it with no delete for it
\* after; and no step changes the cid or indexed_at of a stored row.
C23_PostLifecycle ==
  /\ []((HandledUpToPosition /\ sub.req.stored = 0)
          => \A u \in URIs :
               (u \in StoredUris <=> Survives(u, hist.firstNext, sub.next - 1)))
  /\ [][\A r \in posts : \A q \in posts' : q.uri = r.uri => q = r]_vars

\* a create, then later in time a second matched create for the same uri,
\* have been handled in a first pass and the row is the first one's
C23_Witness ==
  /\ HandledUpToPosition
  /\ sub.req.stored = 0
  /\ hist.firstNext = 1
  /\ sub.next = 3
  /\ IsMatchedCreate(src[1], UriOf(src[1]))
  /\ src[2] = [src[1] EXCEPT !.time_us = 2]
  /\ now > 0
  /\ \E r \in posts : r.uri = UriOf(src[1]) /\ r.indexed_at = 0

\* exactly-once handling, as a reference: a matched create adds its uri, a
\* delete removes its uri, any other message changes nothing
ApplyOnce(uris, m) ==
  IF m.msg.kind # "commit" THEN uris
  ELSE IF IsMatchedCreate(m, UriOf(m)) THEN uris \cup {UriOf(m)}
  ELSE IF IsDelete(m, UriOf(m)) THEN uris \ {UriOf(m)}
  ELSE uris
RECURSIVE ExactlyOnce(_, _)
ExactlyOnce(from, to) ==
  IF to < from THEN {} ELSE ApplyOnce(ExactlyOnce(from, to - 1), src[to])

\* C24: whatever the disconnects and the replays from the checkpoint, once
\* the Subscriber has (re-)handled every message up to its position the
\* stored uris are those that handling each message once, in order, gives.
C24_ReplayConverges ==
  HandledUpToPosition => StoredUris = ExactlyOnce(hist.firstNext, sub.next - 1)

\* a session that resumed from the checkpoint has handled a matched create
\* a second time, then the delete that follows it, and has caught up
C24_Witness ==
  /\ HandledUpToPosition
  /\ sub.req.resume
  /\ sub.req.cursor = 1
  /\ hist.firstNext = 1
  /\ sub.next = 3
  /\ IsMatchedCreate(src[1], UriOf(src[1]))
  /\ IsDelete(src[2], UriOf(src[1]))

\* the Subscriber's state as the specification names it: Start between
\* attempts (before the first, or in the wait after a failed one) is
\* Disconnected, subscribe up to the dial is Connecting, subscribe's loop is
\* Streaming, Start returned is Cancelled
SubscriberState(pc) ==
  CASE pc \in {"idle", "backoff"} -> "Disconnected"
    [] pc = "connecting" -> "Connecting"
    [] pc \in {"streaming", "reading"} -> "Streaming"
    [] pc = "cancelled" -> "Cancelled"

StateTransitions ==
  {<<"Disconnected", "Connecting">>, <<"Connecting", "Streaming">>,
   <<"Connecting", "Disconnected">>, <<"Streaming", "Disconnected">>}

\* C25: the Subscriber's state changes only along Disconnected->Connecting,
\* Connecting->Streaming, Connecting->Disconnected, Streaming->Disconnected,
\* or to Cancelled under a cancelled context, and never leaves Cancelled;
\* Streaming is entered only from Connecting, by an attempt that read the
\* checkpoint and whose dial opened the connection; Streaming is left only
\* into the backoff wait with the connection closed, and Connecting is
\* entered only from Start's loop head, which follows that wait.
C25_StateMachine ==
  /\ [][SubscriberState(sub.pc) # SubscriberState(sub'.pc)
          => \/ <<SubscriberState(sub.pc), SubscriberState(sub'.pc)>> \in StateTransitions
             \/ SubscriberState(sub'.pc) = "Cancelled" /\ ctxDone]_vars
  /\ [][sub.pc = "cancelled" => sub' = sub]_vars
  /\ [][(SubscriberState(sub'.pc) = "Streaming" /\ SubscriberState(sub.pc) # "Streaming")
          => /\ sub.pc = "connecting"
             /\ ~sub.open
             /\ sub'.open
             /\ sub'.req.made
             /\ sub'.req.stored = cursors
             /\ sub'.next = StartIndex(sub'.req)]_vars
  /\ [][(SubscriberState(sub.pc) = "Connecting" /\ SubscriberState(sub'.pc) = "Disconnected")
          => ~sub'.open /\ sub'.pc = "backoff"]_vars
  /\ [][(SubscriberState(sub.pc) = "Streaming" /\ SubscriberState(sub'.pc) # "Streaming")
          => ~sub'.open /\ sub'.pc = "backoff"]_vars
  /\ [][(sub.pc = "backoff" /\ sub'.pc # "backoff") => sub'.pc \in {"idle", "cancelled"}]_vars
  /\ [][(sub'.pc = "connecting" /\ sub.pc # "connecting") => sub.pc = "idle"]_vars

\* the Subscriber has been through Connecting, Streaming (it handled an
\* event) and Disconnected, and has ended in Cancelled
C25_Witness ==
  /\ sub.pc = "cancelled"
  /\ hist.firstNext >= 1
  /\ hist.applied # {}
  /\ ctxDone

\* ------------------------------- one message, any store (SpecTurn)
\*
\* The process starts on a table and a checkpoint left by an earlier run;
\* Jetstream re-sends the message at the checkpoint, and the Subscriber
\* handles it.  The message is any of the shapes parseEvent and
\* handleCommit distinguish.

CommitIn(collection, op, did, rkey, record, matches) ==
  [kind |-> "commit", operation |-> op, collection |-> collection,
   did |-> did, rkey |-> rkey, cid |-> 1, record |-> record, matches |-> matches]

\* an author and record key of a stored uri, and an author whose records
\* were never stored
TurnRepos == {<<"did:a", "k1">>, <<"did:c", "k1">>}

TurnMessages ==
  UNION {{CommitIn(c, "create", k[1], k[2], TRUE, TRUE),
          CommitIn(c, "create", k[1], k[2], TRUE, FALSE),
          CommitIn(c, "create", k[1], k[2], FALSE, FALSE),
          CommitIn(c, "update", k[1], k[2], TRUE, TRUE),
          CommitIn(c, "delete", k[1], k[2], FALSE, FALSE)} :
           c \in {PostCollection, "app.bsky.feed.like"}, k \in TurnRepos}
    \cup {CommitIn("app.bsky.feed.postgate", "create", "did:a", "k1", TRUE, TRUE),
          [kind |-> "commit"], [kind |-> "identity"], [kind |-> "account"],
          [kind |-> "undecodable"]}

InitTurn ==
  /\ posts \in Stores
  /\ now = MaxIndexedAt
  /\ lastOp = NoOp
  /\ lastPage = NoPage
  /\ walk = IdleWalk
  /\ txn = NoTxn
  /\ seen = NoSeen
  /\ src \in {<<[time_us |-> 1, msg |-> m]>> : m \in TurnMessages}
  /\ sub = IdleSub
  /\ cursors = 1
  /\ ctxDone = FALSE
  /\ hist = NoHist
  /\ feeds = NoFeeds
  /\ match = NoMatch
  /\ proc = NoProc
  /\ resp = NoResp
  /\ cleanup = NoCleanup

NextTurn ==
  \/ StartCheck
  \/ Connect
  \/ SaveIntervalElapses
  \/ StreamCheck
  \/ ReadMessage

SpecTurn == InitTurn /\ [][NextTurn]_vars

\* the loop turn on the message at sub.next completes (the position moves on)
TurnOn(m) ==
  /\ sub.pc = "reading"
  /\ sub.next <= Len(src)
  /\ src[sub.next] = m
  /\ sub'.next = sub.next + 1

\* message m is a delete commit of a post record
IsPostDelete(m) ==
  /\ m.msg.kind = "commit"
  /\ "operation" \in DOMAIN m.msg
  /\ m.msg.operation = "delete"
  /\ m.msg.collection = PostCollection

\* C26: the turn on a delete commit of a post removes the row of
\* at://<did>/<collection>/<rkey>, stored or not, matched or not, unless the
\* database call itself fails; with no such row the call returns no error
\* and the table is as before; rows of other uris are never touched.
C26_DeleteRemovesOnlyItsUri ==
  [][\A i \in 1..Len(src) :
       (IsPostDelete(src[i]) /\ TurnOn(src[i]))
         => LET uri == MakeURI(src[i].msg.did, src[i].msg.collection, src[i].msg.rkey)
            IN /\ i \in hist'.applied => posts' = {r \in posts : r.uri # uri}
               /\ i \notin hist'.applied => posts' = posts
               /\ \A r \in posts : r.uri # uri => r \in posts'
               /\ posts' \subseteq posts
               /\ uri \notin StoredUris
                    => /\ posts' = posts
                       /\ ProcessDeletePost(posts, uri, TRUE)
                            = [rows |-> posts, matched |-> FALSE, err |-> FALSE]]_vars

\* a delete for an author none of whose posts was ever stored has been
\* handled without error, beside a full table
C26_Witness ==
  /\ sub.pc = "streaming"
  /\ sub.next = 2
  /\ IsPostDelete(src[1])
  /\ src[1].msg.did = "did:c"
  /\ 1 \in hist.applied
  /\ StoredUris = URIs

\* message m causes no store write: it is no commit, a commit without
\* payload, of another collection, of an operation other than create and
\* delete, a create without a record, or a create no rule matches
CausesNoWrite(m) ==
  /\ m.msg.kind # "undecodable"
  /\ \/ m.msg.kind # "commit"
     \/ "operation" \notin DOMAIN m.msg
     \/ m.msg.collection # PostCollection
     \/ m.msg.operation \notin {"create", "delete"}
     \/ m.msg.operation = "create" /\ ~m.msg.record
     \/ m.msg.operation = "create" /\ ~m.msg.matches

\* C27: the turn on a message that causes no store write leaves the table
\* exactly as it was, is not an error, and notes the message's position.
C27_NoWriteEventsFrame ==
  [][\A i \in 1..Len(src) :
       (CausesNoWrite(src[i]) /\ TurnOn(src[i]))
         => /\ posts' = posts
            /\ i \in hist'.applied
            /\ sub'.latestCursor = src[i].time_us
            /\ sub'.pc = "streaming"]_vars

\* an update commit of a stored post's record has been handled, the table
\* still full and the position noted
C27_Witness ==
  /\ sub.pc = "streaming"
  /\ sub.next = 2
  /\ src[1].msg.kind = "commit"
  /\ "operation" \in DOMAIN src[1].msg
  /\ src[1].msg.operation = "update"
  /\ src[1].msg.collection = PostCollection
  /\ src[1].msg.did = "did:a"
  /\ sub.latestCursor = 1
  /\ StoredUris = URIs

\* message m decodes
Decodes(m) == ~parseEvent(m).err

\* C28: every turn on a message that decodes, whatever its kind and whether
\* or not it matched, sets the latest observed position to that message's
\* position; and whenever the stored checkpoint changes, the value written
\* is the position of the message decoded in that very turn of the current
\* session: at least 1, never the initial 0, never beyond the message read.
C28_PositionObservedAndSaved ==
  /\ [][\A i \in 1..Len(src) :
          (Decodes(src[i]) /\ TurnOn(src[i])) => sub'.latestCursor = src[i].time_us]_vars
  /\ [][cursors' # cursors
          => /\ sub.pc = "reading"
             /\ sub.open
             /\ sub.next <= Len(src)
             /\ Decodes(src[sub.next])
             /\ cursors' = src[sub.next].time_us
             /\ cursors' = sub'.latestCursor
             /\ cursors' >= 1]_vars

\* the checkpoint holds the position of an event that is no commit, the
\* second message of the stream
C28_Witness ==
  /\ Len(src) = 2
  /\ src[2].msg.kind = "identity"
  /\ cursors = 2
  /\ sub.latestCursor = 2

\* C29: the checkpoint is written when, and only when, a decoded event has
\* been handled and the save interval has elapsed since the last successful
\* save or since the connection was opened: in such a turn UpdateCursor is
\* called with that event's position (if the write fails the save stays
\* due), in any other turn nothing is written; the interval starts when
\* the connection opens and elapses with time only.
C29_SaveByElapsedTime ==
  /\ [][\A i \in 1..Len(src) :
          (Decodes(src[i]) /\ TurnOn(src[i]))
            => IF sub.saveDue
                 THEN \/ cursors' = src[i].time_us /\ ~sub'.saveDue
                      \/ cursors' = cursors /\ sub'.saveDue
                 ELSE cursors' = cursors /\ ~sub'.saveDue]_vars
  /\ [][cursors' # cursors => sub.saveDue /\ sub.pc = "reading"]_vars
  /\ [][(sub.pc = "connecting" /\ sub'.pc = "streaming") => ~sub'.saveDue]_vars
  /\ [][(sub.open /\ ~sub.saveDue /\ sub'.saveDue)
          => /\ sub' = [sub EXCEPT !.saveDue = TRUE]
             /\ posts' = posts
             /\ src' = src
             /\ cursors' = cursors]_vars

\* the first event's position was saved once the interval had elapsed; the
\* second event has been handled within the next interval and not saved
C29_Witness ==
  /\ sub.open
  /\ sub.pc = "streaming"
  /\ sub.next = 3
  /\ hist.applied = {1, 2}
  /\ sub.latestCursor = 2
  /\ cursors = 1
  /\ ~sub.saveDue

\* C30: the connection is open exactly while the Subscriber is in its
\* streaming loop; it is opened only by the dial of a Connecting attempt
\* made while no connection is open; and every exit from the streaming
\* loop leaves it closed.
C30_SingleConnection ==
  /\ [](sub.open <=> SubscriberState(sub.pc) = "Streaming")
  /\ [][(sub.pc = "connecting" /\ sub'.pc = "streaming") => (~sub.open /\ sub'.open)]_vars
  /\ [][(sub.open /\ SubscriberState(sub'.pc) # "Streaming") => ~sub'.open]_vars
  /\ [][(~sub.open /\ sub'.open) => sub.pc = "connecting"]_vars

\* a connection is open on which nothing has been decoded yet, after an
\* earlier session handled an event and was closed
C30_Witness ==
  /\ sub.open
  /\ sub.pc = "reading"
  /\ sub.latestCursor = 0
  /\ hist.applied # {}

\* C31: at most one evict is in flight; an evict starts only when none is
\* in flight, the previous one having returned, also when a tick fired
\* while it was running.
C31_EvictsNeverOverlap ==
  /\ [](cleanup # NoCleanup
          => /\ cleanup.inflight \in {0, 1}
             /\ cleanup.inflight = 1 <=> cleanup.pc = "evicting")
  /\ [][(cleanup # NoCleanup /\ cleanup'.inflight > cleanup.inflight)
          => /\ cleanup.inflight = 0
             /\ cleanup.pc = "waiting"
             /\ cleanup.ran]_vars

\* an evict started by a tick is running and the next tick has already
\* fired: this evict has taken longer than the interval
C31_Witness ==
  /\ cleanup # NoCleanup
  /\ cleanup.pc = "evicting"
  /\ cleanup.ran
  /\ cleanup.inflight = 1
  /\ cleanup.ticker = "full"

\* C32: once the context is cancelled the retention job starts no further
\* evict: no step taken under a cancelled context raises the number of
\* runCleanup calls.
C32_NoEvictAfterCancel ==
  [][(ctxDone /\ cleanup # NoCleanup) => cleanup'.inflight <= cleanup.inflight]_vars

\* C33: once a delete event for a uri has been handled, the uri is not in
\* the table (so no page query returns it) unless the stream holds a
\* matched create for it after that delete.
C33_DeletionNotUndone ==
  \A u \in URIs :
    \A i \in 1..Len(src) :
      (/\ i \in hist.applied
       /\ IsDelete(src[i], u)
       /\ \A j \in (i + 1)..Len(src) : ~IsMatchedCreate(src[j], u))
        => u \notin StoredUris

\* --------------------------------- ProcessNewPost by itself (SpecProcess)
\*
\* ProcessNewPost called on any table, for any incoming post, with the
\* matcher's answer and the database's reachability as inputs; lastOp keeps
\* the call, the table before it and what it returned.
ProcessNewPostCall ==
  \E u \in URIs, c \in CIDs, matches \in BOOLEAN, dbOk \in BOOLEAN :
    LET incoming == [URI |-> u, CID |-> c, matches |-> matches]
        r == ProcessNewPost(posts, incoming, now, dbOk)
    IN /\ posts' = r.rows
       /\ lastOp' = [op |-> "process", before |-> posts, incoming |-> incoming,
                     dbOk |-> dbOk, matched |-> r.matched, err |-> r.err]
       /\ UNCHANGED <<now, lastPage, walk, txn, seen, src, sub, cursors, ctxDone, hist,
                      feeds, match, proc, resp, cleanup>>

SpecProcess == InitPage /\ [][ProcessNewPostCall]_vars

ProcessDone == lastOp # NoOp /\ lastOp.op = "process"

EvictBeginLive == ~ctxDone /\ EvictBegin
EvictTtlLive == ~ctxDone /\ EvictTtl
EvictCapLive == ~ctxDone /\ EvictCap
EvictCommitLive == ~ctxDone /\ EvictCommit

\* the statement DeleteOldPosts is about to issue, by the name of the error
\* it wraps when that statement fails
EvictStep ==
  IF txn.state = "closed" THEN "begin transaction"
  ELSE IF txn.step = "begun" THEN "delete expired posts"
  ELSE IF txn.step = "ttl" THEN "delete excess posts"
  ELSE "commit transaction"

\* the statement DeleteOldPosts is about to issue fails: return 0 and the
\* wrapped error; the deferred tx.Rollback drops the transaction's
\* uncommitted deletes.  (A failed BeginTx is a call that ends at once.)
EvictFails ==
  /\ lastOp' = [op |-> "evict", err |-> EvictStep, deleted |-> 0,
                undone |-> IF txn.state = "open" THEN txn.pending ELSE {}]
  /\ txn' = NoTxn
  /\ UNCHANGED <<posts, now, lastPage, walk, seen, src, sub, cursors, ctxDone, hist,
                 feeds, match, proc, resp, cleanup>>

NextRollback ==
  \/ Cancel
  \/ EvictBeginLive \/ EvictTtlLive \/ EvictCapLive \/ EvictCommitLive \/ EvictFails

SpecRollback == InitPage /\ [][NextRollback]_vars

\* C35: evict is all-or-nothing.  While a call is in flight no row it has
\* deleted is gone from the committed store; a step in which the call fails
\* (at BeginTx, the TTL pass, the row-cap pass or Commit, cancellation
\* included) returns an error with count 0 and leaves the store as it was,
\* with every row the TTL pass and the row-cap pass deleted still in it; the
\* store changes only in the step of a successful Commit, by all of the
\* call's deletes at once.
C35_EvictAllOrNothing ==
  /\ [](txn.state = "open"
          => /\ txn.ttlGone \cup txn.capGone \subseteq posts
             /\ txn.pending = txn.ttlGone \cup txn.capGone)
  /\ [][(txn' = NoTxn /\ lastOp' # lastOp)
          => /\ lastOp'.op = "evict" /\ lastOp'.err # "none" /\ lastOp'.deleted = 0
             /\ posts' = posts
             /\ txn.state = "open" => txn.ttlGone \cup txn.capGone \subseteq posts']_vars
  /\ [][posts' # posts
          => /\ txn.state = "open" /\ txn.step = "cap" /\ txn' = NoTxn
             /\ lastOp' = lastOp
             /\ posts' = posts \ (txn.ttlGone \cup txn.capGone)]_vars
  /\ [][(ctxDone /\ txn.state = "open" /\ txn' # txn)
          => (txn' = NoTxn /\ posts' = posts /\ lastOp'.op = "evict"
              /\ lastOp'.deleted = 0)]_vars

\* the row-cap pass has failed, under a cancelled context, after the TTL pass
\* had deleted rows: those rows are in the store
C35_Witness ==
  /\ lastOp # NoOp /\ lastOp.op = "evict"
  /\ lastOp.err = "delete excess posts"
  /\ lastOp.undone # {} /\ lastOp.undone \subseteq posts
  /\ ctxDone
  /\ txn = NoTxn

\* ------------------ a failed cursor save (SpecSave)

\* time.Since(lastCursorSave) is read only inside a loop turn (line 143):
\* the interval is taken to run out while subscribe is blocked in ReadMessage
SaveIntervalElapsesAtRead == sub.pc = "reading" /\ SaveIntervalElapses

NextSave ==
  \/ Emit \/ Cancel \/ StartCheck \/ Connect \/ SaveIntervalElapsesAtRead
  \/ StreamCheck \/ ReadError \/ ReadMessage \/ BackoffElapsed \/ BackoffCancelled

SpecSave == Init /\ [][NextSave]_vars

\* a loop turn on the message at sub.next with the save interval elapsed
DueTurn ==
  /\ sub.pc = "reading" /\ sub.saveDue
  /\ sub.next <= Len(src)
  /\ sub'.open /\ sub'.next = sub.next + 1

\* C36: a turn on a decoded message with the save due ends in Streaming on
\* the same open connection, with the message's position as the latest one,
\* and either the checkpoint is that position and the timer is reset, or
\* (the write failed) the checkpoint has its previous value and the save is
\* still due; under a cancelled context it is the latter.  A turn on a
\* message that does not decode leaves checkpoint and timer alone.  A due
\* save stays due until a turn writes the position of its own message or the
\* session ends, so the turn on the next decoded message writes again.
C36_FailedSaveRetried ==
  /\ [][(DueTurn /\ Decodes(src[sub.next]))
          => /\ sub'.pc = "streaming" /\ sub'.req = sub.req
             /\ sub'.latestCursor = parseEvent(src[sub.next]).TimeUS
             /\ \/ cursors' = sub'.latestCursor /\ ~sub'.saveDue
                \/ cursors' = cursors /\ sub'.saveDue]_vars
  /\ [][(DueTurn /\ Decodes(src[sub.next]) /\ ctxDone)
          => (cursors' = cursors /\ sub'.saveDue /\ sub'.pc = "streaming")]_vars
  /\ [][(DueTurn /\ ~Decodes(src[sub.next]))
          => (cursors' = cursors /\ sub'.saveDue /\ sub'.pc = "streaming")]_vars
  /\ [][(sub.saveDue /\ ~sub'.saveDue)
          => \/ ~sub'.open
             \/ /\ DueTurn /\ Decodes(src[sub.next])
                /\ cursors' = parseEvent(src[sub.next]).TimeUS]_vars

\* a turn on a decoded message has ended with the save still due, so its
\* write failed: the session is in Streaming, the checkpoint is not the
\* latest position, and the next message, which decodes, is waiting
C36_Witness ==
  /\ sub.pc = "streaming" /\ sub.open /\ sub.saveDue
  /\ ~ctxDone
  /\ sub.next - 1 \in hist.applied
  /\ Decodes(src[sub.next - 1])
  /\ sub.latestCursor = parseEvent(src[sub.next - 1]).TimeUS
  /\ cursors # sub.latestCursor
  /\ sub.next <= Len(src) /\ Decodes(src[sub.next])

\* ------------------ a failed cursor read (SpecSub)

\* C37: a connection request made after the checkpoint read failed asks for
\* no resume position: it starts at the source's live edge.
C37_FailedReadStartsLive ==
  (sub.req.made /\ ~sub.req.readOk) => (~sub.req.resume /\ sub.req.cursor = 0)

\* ------------------ one store behind every feed (SpecRun)

\* the feeds registered with the running service
RegisteredFeeds == IF feeds # NoFeeds /\ feeds.err = "none" THEN DOMAIN feeds.feeds ELSE {}

\* the limits and cursors a skeleton is asked with
AskedLimits == {1, MaxPageLimit}
AskedCursors == {EmptyCursor, <<IntSeg(UnixMilli(MaxIndexedAt)), TxtSeg(NumCids)>>}

\* the entries of a skeleton
Entries(sk) == {sk.Posts[i] : i \in 1..Len(sk.Posts)}

\* the posts the source may deliver, one cid each
AskedIncoming ==
  {IncomingPost(u, 1, t, l) : u \in URIs, t \in {<<"a">>, <<"-">>}, l \in {<<>>, <<"en">>}}

\* C38: on the store as it stands, GetFeedSkeleton answers any two
\* registered feeds alike for the same limit and cursor, entries and next
\* cursor; a post that matches some feed but not the feed asked for is, once
\* stored, on the page of the feed asked for; and serving a request leaves
\* the store as it was.
C38_PageSameForEveryFeed ==
  /\ [](\A f1 \in RegisteredFeeds : \A f2 \in RegisteredFeeds \ {f1} :
          \A limit \in AskedLimits, cursor \in AskedCursors :
            GetFeedSkeleton(feeds.feeds, posts, f1, limit, cursor, TRUE)
              = GetFeedSkeleton(feeds.feeds, posts, f2, limit, cursor, TRUE))
  /\ [](\A f \in RegisteredFeeds : \A incoming \in AskedIncoming :
          (matchesAnyFeed(feeds.feeds, incoming) /\ ~matchesFeed(feeds.feeds[f], incoming))
            => LET stored == ProcessNewPost(posts, [URI |-> incoming.URI, CID |-> incoming.CID,
                                                    matches |-> TRUE], now, TRUE).rows
               IN \A sk \in GetFeedSkeleton(feeds.feeds, stored, f, MaxPageLimit,
                                            EmptyCursor, TRUE) :
                    sk.err = "none" /\ Entries(sk) = {r.uri : r \in stored})
  /\ [][resp' # resp => posts' = posts]_vars

\* a request for feed2 has been answered with a page of every stored post
\* while two feeds are registered and some post of the source matches feed1
\* and not feed2
C38_Witness ==
  /\ RegisteredFeeds = {"feed1", "feed2"}
  /\ resp # NoResp /\ resp.status = 200
  /\ resp.req.feed = "feed2"
  /\ posts # {}
  /\ {resp.feed[i] : i \in 1..Len(resp.feed)} = StoredUris
  /\ \E incoming \in RunIncoming :
       /\ matchesFeed(feeds.feeds["feed1"], incoming)
       /\ ~matchesFeed(feeds.feeds["feed2"], incoming)
       /\ incoming.URI \in StoredUris

====
